---- MODULE Spec2Model ----
(***************************************************************************)
(* mcp-vibe-coding-tools: the two MCP tool servers (src/src/index.ts,      *)
(* src/src/gitops-server.ts) and the tool handlers they register.          *)
(*                                                                         *)
(* The module holds several specifications over one set of variables, one  *)
(* per part of the program:                                                *)
(*   SpecFs       the handlers that take a path argument                   *)
(*   SpecGateway  one tool call through registration-time schema and the   *)
(*                McpServer dispatch                                       *)
(*   SpecExec     execute_command, its subprocess and its timeout, with    *)
(*                other calls arriving meanwhile                           *)
(*   SpecGitops   the GitOps server: credentials, calls, HTTP requests     *)
(*   SpecRegistry the registration loop and the start of the server        *)
(* A specification leaves the variables of the other parts unchanged.      *)
(***************************************************************************)
EXTENDS Integers, Sequences, FiniteSets, TLC

VARIABLES
    fsReq,      \* SpecFs: the request the last handler invocation got
    fsIO,       \* SpecFs: the filesystem calls that invocation made, in order
    fsResp,     \* SpecFs: what that invocation returned or threw
    gw,         \* SpecGateway: the call in the gateway
    ex,         \* SpecExec: the execute_command call, its subprocess and timer
    other,      \* SpecExec: a second inbound call
    loopBusy,   \* SpecExec: the event loop is inside a blocking call
    go,         \* SpecGitops: environment, call, HTTP requests issued
    reg,         \* SpecRegistry: registration loop position, registry, transport
    wr,   \* SpecWrites: a mutating call, its pending and completed file operations
    cmd,   \* SpecCwd: an execute_command call and the directory its command ran in
    wl,   \* SpecWatch: a growing log file and a client polling it with watch_log_changes
    rag,   \* SpecRag: documents, index.json on disk, indexCache, the RAG call in progress
    sr,   \* SpecSearch: the indexed chunks with their scores for a query, and a rag_search call
    dg,   \* SpecLogs: analyze_error_logs reading a log, its loop position and the traces found
    ls,   \* SpecList: a directory tree and a list_directory call
    vp,   \* SpecValidate: a validate_project call, the project it finds and its results
    st,   \* SpecStartup: module evaluation of index.ts, the transport and the process streams
    pb,   \* SpecProblems: the problems collected by get_vscode_problems and its call
    ck,   \* SpecChunk: a text given to chunkText and the chunks returned
    li,   \* SpecLoad: the content of index.json, indexCache and the results of loadIndex calls
    ns,   \* SpecScripts: the scripts written by create_validation_script and an npm run of them
    dv   \* SpecDev: a start_dev_server call and the processes spawned so far

vars == <<fsReq, fsIO, fsResp, gw, ex, other, loopBusy, go, reg, wr, cmd, wl, rag, sr, dg, ls, vp, st, pb, ck, li, ns, dv>>

None == "none"

(***************************************************************************)
(* Paths.  A path string is a sequence of characters; a segment is a       *)
(* non-empty character sequence without "/".  Resolved paths are kept as   *)
(* the sequence of their segments (absolute, normalised) and rendered to a *)
(* string where the code compares strings.                                 *)
(***************************************************************************)
MaxPathLen == 3

sW      == <<"w">>
sWX     == <<"w", "x">>
sA      == <<"a">>
sE      == <<"e">>
sDot    == <<".">>
sDotDot == <<".", ".">>

InputSegs == {sW, sWX, sA, sE, sDot, sDotDot}

SeqsUpTo(S, n) == UNION {[1..k -> S] : k \in 0..n}

\* A path argument as the caller writes it: absolute ("/a/b") or relative.
InputPaths == [abs : BOOLEAN, segs : SeqsUpTo(InputSegs, MaxPathLen)]

\* const workspacePath = process.env.WORKSPACE_PATH || process.cwd();
workspacePath == <<sW>>

\* The process's working directory (WORKSPACE_PATH unset: the same directory).
cwd == workspacePath

RECURSIVE Normalize(_, _)
\* Node's path normalisation of `segs` appended to the absolute path `stack`:
\* "." is dropped, ".." removes the last segment (the root has no parent).
Normalize(stack, segs) ==
    IF segs = <<>> THEN stack
    ELSE LET s == Head(segs) IN
         IF s = sDot THEN Normalize(stack, Tail(segs))
         ELSE IF s = sDotDot
              THEN Normalize(IF stack = <<>> THEN <<>>
                             ELSE SubSeq(stack, 1, Len(stack) - 1), Tail(segs))
              ELSE Normalize(Append(stack, s), Tail(segs))

\* path.resolve(base, p): an absolute p replaces base.
PathResolve(base, p) ==
    IF p.abs THEN Normalize(<<>>, p.segs) ELSE Normalize(base, p.segs)

\* path.join(base, p): p is appended to base whether or not it starts with "/".
PathJoin(base, p) == Normalize(base, p.segs)

RECURSIVE PathStr(_)
\* The string of an absolute path: "/" and the segments joined by "/".
PathStr(segs) ==
    IF segs = <<>> THEN <<"/">>
    ELSE IF Len(segs) = 1 THEN <<"/">> \o segs[1]
    ELSE PathStr(SubSeq(segs, 1, Len(segs) - 1)) \o <<"/">> \o segs[Len(segs)]

\* String.prototype.startsWith
StartsWith(s, p) == Len(p) <= Len(s) /\ SubSeq(s, 1, Len(p)) = p

AccessDenied == "Access denied: Path outside workspace"

\* function validatePath(inputPath): throws, or returns the resolved path.
validatePath(inputPath) ==
    LET resolvedPath == PathResolve(workspacePath, inputPath) IN
    IF ~StartsWith(PathStr(resolvedPath), PathStr(workspacePath))
    THEN [ok |-> FALSE, path |-> resolvedPath, error |-> AccessDenied]
    ELSE [ok |-> TRUE, path |-> resolvedPath, error |-> None]

\* The workspace root itself or a path beneath it by whole segments.
InWorkspace(p) ==
    /\ Len(p) >= Len(workspacePath)
    /\ SubSeq(p, 1, Len(workspacePath)) = workspacePath

(***************************************************************************)
(* SpecFs: the handlers that take a path.  FsCall is a handler being       *)
(* invoked with its arguments; the action named after the tool is the      *)
(* handler run to its return or throw; FsDone takes the result away.       *)
(* Every filesystem call may fail (a missing file, a permission): `k` is   *)
(* the number of the handler's filesystem calls that succeed.              *)
(***************************************************************************)
ValidatedTools ==
    {"read_file", "write_file", "list_directory", "file_info", "create_directory"}

LogTools == {"read_log_file", "analyze_error_logs", "watch_log_changes", "rag_get_context"}

IoCall(op, path) == [op |-> op, path |-> path]

Returned(success, error) == [kind |-> "return", success |-> success, error |-> error]
Threw(error) == [kind |-> "throw", success |-> None, error |-> error]
Pending == [kind |-> "pending", success |-> None, error |-> None]

IoError == "ENOENT"

\* The calls of `plan` that are made when the first k succeed, and whether one failed.
Attempted(plan, k) == SubSeq(plan, 1, IF k < Len(plan) THEN k + 1 ELSE Len(plan))
Failed(plan, k) == k < Len(plan)

\* path.dirname of an absolute path
Dirname(p) == IF p = <<>> THEN <<>> ELSE SubSeq(p, 1, Len(p) - 1)

\* A handler without try/catch: validatePath and every fs call throw out of it.
UnguardedHandler(tool, p, plan, k) ==
    LET v == validatePath(p) IN
    /\ fsReq = [tool |-> tool, path |-> p]
    /\ fsResp = Pending
    /\ UNCHANGED fsReq
    /\ IF ~v.ok
       THEN /\ fsIO' = <<>>
            /\ fsResp' = Threw(v.error)
       ELSE /\ fsIO' = Attempted(plan, k)
            /\ fsResp' = IF Failed(plan, k) THEN Threw(IoError)
                         ELSE Returned("true", None)
    /\ UNCHANGED <<gw, ex, other, loopBusy, go, reg, wr, cmd, wl, rag, sr, dg, ls, vp, st, pb, ck, li, ns, dv>>

\* A handler whose body is one try/catch returning {success: false, error}.
GuardedHandler(tool, p, plan, k) ==
    /\ fsReq = [tool |-> tool, path |-> p]
    /\ fsResp = Pending
    /\ UNCHANGED fsReq
    /\ fsIO' = Attempted(plan, k)
    /\ fsResp' = IF Failed(plan, k) THEN Returned("false", IoError)
                 ELSE Returned("true", None)
    /\ UNCHANGED <<gw, ex, other, loopBusy, go, reg, wr, cmd, wl, rag, sr, dg, ls, vp, st, pb, ck, li, ns, dv>>

read_file ==
    \E p \in {fsReq.path}, k \in 0..1 :
        LET validPath == validatePath(p).path IN
        UnguardedHandler("read_file", p, <<IoCall("readFile", validPath)>>, k)

write_file ==
    \E p \in {fsReq.path}, k \in 0..2 :
        LET validPath == validatePath(p).path IN
        UnguardedHandler("write_file", p,
            <<IoCall("mkdir", Dirname(validPath)), IoCall("writeFile", validPath)>>, k)

\* args.path || ".": the empty path is the workspace root, as "." is.
list_directory ==
    \E p \in {fsReq.path}, k \in 0..2 :
        LET validPath == validatePath(p).path IN
        UnguardedHandler("list_directory", p,
            <<IoCall("readdir", validPath), IoCall("stat", validPath)>>, k)

file_info ==
    \E p \in {fsReq.path}, k \in 0..1 :
        LET validPath == validatePath(p).path IN
        UnguardedHandler("file_info", p, <<IoCall("stat", validPath)>>, k)

create_directory ==
    \E p \in {fsReq.path}, k \in 0..1 :
        LET validPath == validatePath(p).path IN
        UnguardedHandler("create_directory", p, <<IoCall("mkdir", validPath)>>, k)

read_log_file ==
    \E p \in {fsReq.path}, k \in 0..1 :
        LET logPath == PathJoin(workspacePath, p) IN
        GuardedHandler("read_log_file", p, <<IoCall("readFile", logPath)>>, k)

analyze_error_logs ==
    \E p \in {fsReq.path}, k \in 0..1 :
        LET logPath == PathJoin(workspacePath, p) IN
        GuardedHandler("analyze_error_logs", p, <<IoCall("readFile", logPath)>>, k)

watch_log_changes ==
    \E p \in {fsReq.path}, k \in 0..3 :
        LET logPath == PathJoin(workspacePath, p) IN
        GuardedHandler("watch_log_changes", p,
            <<IoCall("stat", logPath), IoCall("open", logPath), IoCall("read", logPath)>>, k)

\* fs.readFile(args.filePath): a relative path is taken from the working directory.
rag_get_context ==
    \E p \in {fsReq.path}, k \in 0..1 :
        GuardedHandler("rag_get_context", p,
            <<IoCall("readFile", PathResolve(cwd, p))>>, k)

FsIdle == [tool |-> None, path |-> [abs |-> FALSE, segs |-> <<>>]]

InitFs ==
    /\ fsReq = FsIdle
    /\ fsIO = <<>>
    /\ fsResp = Returned(None, None)
    /\ gw = None
    /\ ex = None
    /\ other = None
    /\ loopBusy = FALSE
    /\ go = None
    /\ reg = None
    /\ wr = None
    /\ cmd = None
    /\ wl = None
    /\ rag = None
    /\ sr = None
    /\ dg = None
    /\ ls = None
    /\ vp = None
    /\ st = None
    /\ pb = None
    /\ ck = None
    /\ li = None
    /\ ns = None
    /\ dv = None

\* A handler is invoked with args.path = p.
FsCall ==
    /\ fsReq = FsIdle
    /\ \E tool \in ValidatedTools \cup LogTools, p \in InputPaths :
            fsReq' = [tool |-> tool, path |-> p]
    /\ fsIO' = <<>>
    /\ fsResp' = Pending
    /\ UNCHANGED <<gw, ex, other, loopBusy, go, reg, wr, cmd, wl, rag, sr, dg, ls, vp, st, pb, ck, li, ns, dv>>

\* The result has been delivered.
FsDone ==
    /\ fsReq # FsIdle
    /\ fsResp # Pending
    /\ fsReq' = FsIdle
    /\ fsIO' = <<>>
    /\ fsResp' = Returned(None, None)
    /\ UNCHANGED <<gw, ex, other, loopBusy, go, reg, wr, cmd, wl, rag, sr, dg, ls, vp, st, pb, ck, li, ns, dv>>

FsNext ==
    \/ FsCall
    \/ FsDone
    \/ read_file
    \/ write_file
    \/ list_directory
    \/ file_info
    \/ create_directory
    \/ read_log_file
    \/ analyze_error_logs
    \/ watch_log_changes
    \/ rag_get_context

SpecFs == InitFs /\ [][FsNext]_vars

\* The path of the request, resolved as path.resolve(workspacePath, path) does.
RequestResolved == PathResolve(workspacePath, fsReq.path)

\* C1: a request of read_file, write_file, list_directory, file_info or
\* create_directory whose resolved path is neither the workspace root nor beneath
\* it by whole segments is rejected with "Access denied: Path outside workspace"
\* and no filesystem call has been made for it.
C1_OutsideRejectedBeforeIO ==
    (fsReq.tool \in ValidatedTools /\ fsResp # Pending /\ ~InWorkspace(RequestResolved))
        => /\ fsIO = <<>>
           /\ fsResp = Threw(AccessDenied)

\* C1 (witness of the rejection that does work): "../../e" is rejected, no I/O.
C1_TraversalRejected ==
    /\ fsReq.tool = "read_file"
    /\ fsReq.path = [abs |-> FALSE, segs |-> <<sDotDot, sDotDot, sE>>]
    /\ fsIO = <<>>
    /\ fsResp = Threw(AccessDenied)

\* C2: read_log_file, analyze_error_logs, watch_log_changes and rag_get_context
\* make no filesystem call on a path outside the workspace root.
C2_LogReadsConfined ==
    fsReq.tool \in LogTools => \A i \in 1..Len(fsIO) : InWorkspace(fsIO[i].path)

(***************************************************************************)
(* SpecGateway: one tool call through the server.  index.ts hands every    *)
(* tool's name, inputSchema and handler to McpServer.registerTool; the     *)
(* server then looks the called name up, validates the arguments against   *)
(* the registered schema, invokes the handler and turns what it returns or *)
(* throws into the response.  Argument values are written as strings:      *)
(* "7" is a number, "false" a boolean, "s" and "all" are strings.           *)
(***************************************************************************)
Undef == "undefined"

StrVals  == {"s", "all", ".", "utf8"}
NumVals  == {"7", "10", "30", "30000"}
BoolVals == {"true", "false"}

\* typeof value
Kind(v) ==
    IF v \in NumVals THEN "number"
    ELSE IF v \in BoolVals THEN "boolean"
    ELSE IF v = Undef THEN "undefined"
    ELSE "string"

\* The values a caller supplies for a field; Undef is the field left out.
RawVals == {"s", "all", "7", "false", Undef}

SeverityEnum == {"error", "warning", "info", "all"}

\* A zod field: the base type and the wrappers around it, outermost first.
\* z.T().default(d).optional() is <<"optional", "default">>,
\* z.T().optional().default(d) is <<"default", "optional">>.
ZField(kind, enum, wrap, def) == [kind |-> kind, enum |-> enum, wrap |-> wrap, def |-> def]

\* A field of a plain JSON-schema object literal.
JField(kind, required, def) ==
    [kind |-> kind, enum |-> {}, wrap |-> IF required THEN <<>> ELSE <<"optional">>, def |-> def]

ZodTools ==
    {"execute_command", "get_vscode_problems", "analyze_error_logs", "git_log",
     "github_list_workflow_runs"}

PlainTools == {"read_file", "fix_common_issues"}

ToolNames == ZodTools \cup PlainTools

\* tool.inputSchema, per tool: field name -> field.
inputSchema(name) ==
    CASE name = "execute_command" ->
            [f \in {"command", "cwd", "timeout"} |->
                CASE f = "command" -> ZField("string", {}, <<>>, Undef)
                  [] f = "cwd" -> ZField("string", {}, <<"optional", "default">>, ".")
                  [] f = "timeout" -> ZField("number", {}, <<"optional", "default">>, "30000")]
      [] name = "get_vscode_problems" ->
            [f \in {"filePath", "severity"} |->
                CASE f = "filePath" -> ZField("string", {}, <<"optional">>, Undef)
                  [] f = "severity" ->
                        ZField("enum", SeverityEnum, <<"optional", "default">>, "all")]
      [] name = "analyze_error_logs" ->
            [f \in {"logPath", "extractStackTraces"} |->
                CASE f = "logPath" -> ZField("string", {}, <<>>, Undef)
                  [] f = "extractStackTraces" ->
                        ZField("boolean", {}, <<"optional", "default">>, "true")]
      [] name = "git_log" ->
            [f \in {"maxCount", "file"} |->
                CASE f = "maxCount" -> ZField("number", {}, <<"optional", "default">>, "10")
                  [] f = "file" -> ZField("string", {}, <<"optional">>, Undef)]
      [] name = "github_list_workflow_runs" ->
            [f \in {"owner", "repo", "per_page"} |->
                CASE f = "owner" -> ZField("string", {}, <<>>, Undef)
                  [] f = "repo" -> ZField("string", {}, <<>>, Undef)
                  [] f = "per_page" -> ZField("number", {}, <<"default", "optional">>, "30")]
      [] name = "read_file" ->
            [f \in {"path", "encoding"} |->
                CASE f = "path" -> JField("string", TRUE, Undef)
                  [] f = "encoding" -> JField("string", FALSE, "utf8")]
      [] name = "fix_common_issues" ->
            [f \in {"autoFix"} |-> JField("boolean", FALSE, "true")]
      [] OTHER -> <<>>

Fields(name) == DOMAIN inputSchema(name)

\* Whether the handler's body is inside a try/catch that returns a payload.
HandlerGuarded(name) == name \notin {"git_log", "read_file"}

\* The base type's check of a present value.
BaseAccepts(fd, v) ==
    IF fd.kind = "enum" THEN v \in fd.enum ELSE Kind(v) = fd.kind

RECURSIVE ZodParseField(_, _, _)
\* zod 3: ZodOptional returns undefined for undefined without asking the inner
\* type; ZodDefault replaces undefined by the default and asks the inner type.
ZodParseField(fd, wrap, v) ==
    IF wrap = <<>>
    THEN IF v # Undef /\ BaseAccepts(fd, v)
         THEN [ok |-> TRUE, value |-> v]
         ELSE [ok |-> FALSE, value |-> Undef]
    ELSE IF Head(wrap) = "optional"
         THEN IF v = Undef THEN [ok |-> TRUE, value |-> Undef]
              ELSE ZodParseField(fd, Tail(wrap), v)
         ELSE ZodParseField(fd, Tail(wrap), IF v = Undef THEN fd.def ELSE v)

\* schema.safeParseAsync(arguments) of a z.object: every field parsed.
ZodParse(name, raw) ==
    LET sch == inputSchema(name)
        res == [f \in DOMAIN sch |-> ZodParseField(sch[f], sch[f].wrap, raw[f])]
    IN [ok |-> \A f \in DOMAIN sch : res[f].ok,
        data |-> [f \in DOMAIN sch |-> res[f].value]]

RegisteredSchemaOmitted(name) == None

\* The inputSchema the registration loop passes to registerTool for the tool:
\* "zod" (a z.object), "plain" (a JSON-schema literal, cast `as any`).
RegisteredSchema(name) == IF name \in ZodTools THEN "zod" ELSE "plain"

\* tsc or eslint exiting non-zero is how get_vscode_problems finds problems.
OperationFailed(name, ok) == ~ok /\ name # "get_vscode_problems"

HandlerOutcomeUnawaited(name, ok) ==
    IF ~OperationFailed(name, ok) THEN Returned(IF name = "github_list_workflow_runs" THEN None ELSE "true", None)
    ELSE IF HandlerGuarded(name)
         THEN Returned(IF name = "github_list_workflow_runs" THEN None ELSE "false", IoError)
         ELSE [kind |-> "unhandledRejection", success |-> None, error |-> IoError]

\* What the handler does when its external operation (subprocess, file,
\* git, HTTP) succeeds or fails: returns formatToolResponse(...) or throws.
\* The GitHub handlers return the API's data, or {error}, without a success field.
HandlerOutcome(name, ok) ==
    IF ~OperationFailed(name, ok) THEN Returned(IF name = "github_list_workflow_runs" THEN None ELSE "true", None)
    ELSE IF HandlerGuarded(name)
         THEN Returned(IF name = "github_list_workflow_runs" THEN None ELSE "false", IoError)
         ELSE Threw(IoError)

\* A response: the protocol's failure alternative (isError) or a content
\* payload; success and error are the fields of the JSON text in the payload.
Envelope(isError, success, error) ==
    [isError |-> isError, success |-> success, error |-> error]

\* formatToolResponse(data) / { content: [{type: "text", text: JSON.stringify(result)}] }
formatToolResponse(r) == Envelope(FALSE, r.success, r.error)

GwIdle ==
    [pc |-> "idle", name |-> None, raw |-> <<>>, args |-> <<>>, invoked |-> 0,
     effects |-> 0, opFailed |-> FALSE, responses |-> 0, resp |-> Envelope(FALSE, None, None),
     alive |-> TRUE]

InitGateway ==
    /\ gw = GwIdle
    /\ fsReq = FsIdle
    /\ fsIO = <<>>
    /\ fsResp = Returned(None, None)
    /\ ex = None
    /\ other = None
    /\ loopBusy = FALSE
    /\ go = None
    /\ reg = None
    /\ wr = None
    /\ cmd = None
    /\ wl = None
    /\ rag = None
    /\ sr = None
    /\ dg = None
    /\ ls = None
    /\ vp = None
    /\ st = None
    /\ pb = None
    /\ ck = None
    /\ li = None
    /\ ns = None
    /\ dv = None

GwRest == <<fsReq, fsIO, fsResp, ex, other, loopBusy, go, reg, wr, cmd, wl, rag, sr, dg, ls, vp, st, pb, ck, li, ns, dv>>

\* An inbound tools/call: a registered or unregistered name, any arguments.
GwReceive ==
    /\ gw.pc = "idle"
    /\ gw.alive
    /\ \E name \in ToolNames \cup {"nope"} :
       \E raw \in [Fields(name) -> RawVals] :
            gw' = [GwIdle EXCEPT !.pc = "received", !.name = name, !.raw = raw]
    /\ UNCHANGED GwRest

GwFail(msg) ==
    gw' = [gw EXCEPT !.pc = "responded", !.responses = @ + 1,
                     !.resp = Envelope(TRUE, None, msg)]

GwInvoke(args) ==
    gw' = [gw EXCEPT !.pc = "running", !.args = args, !.invoked = @ + 1]

\* Lookup and validation, up to the handler being invoked.
GwDispatch ==
    /\ gw.pc = "received"
    /\ IF gw.name \notin ToolNames
       THEN GwFail("Tool not found")
       ELSE IF RegisteredSchema(gw.name) = None
            THEN GwInvoke(gw.raw)
       ELSE IF RegisteredSchema(gw.name) = "plain"
            THEN GwFail("v3Schema.safeParseAsync is not a function")
       ELSE IF ZodParse(gw.name, gw.raw).ok
            THEN GwInvoke(ZodParse(gw.name, gw.raw).data)
            ELSE GwFail("Invalid arguments")
    /\ UNCHANGED GwRest

\* The handler runs its external operation and settles; the server answers.
GwHandlerSettles ==
    /\ gw.pc = "running"
    /\ \E ok \in BOOLEAN :
        LET out == HandlerOutcome(gw.name, ok) IN
        gw' = [gw EXCEPT
                 !.effects = @ + 1,
                 !.opFailed = OperationFailed(gw.name, ok),
                 !.pc = IF out.kind = "unhandledRejection" THEN "crashed" ELSE "responded",
                 !.alive = out.kind # "unhandledRejection",
                 !.responses = IF out.kind = "unhandledRejection" THEN @ ELSE @ + 1,
                 !.resp = IF out.kind = "return" THEN formatToolResponse(out)
                          ELSE IF out.kind = "throw" THEN Envelope(TRUE, None, out.error)
                          ELSE @]
    /\ UNCHANGED GwRest

\* The response is written to the transport; the server waits for the next call.
GwDeliver ==
    /\ gw.pc = "responded"
    /\ gw' = GwIdle
    /\ UNCHANGED GwRest

GwNext ==
    \/ GwReceive
    \/ GwDispatch
    \/ GwHandlerSettles
    \/ GwDeliver

SpecGateway == InitGateway /\ [][GwNext]_vars

DeclaredValid(name, raw) ==
    \A f \in Fields(name) :
        LET fd == inputSchema(name)[f] IN
        /\ raw[f] = Undef => fd.wrap # <<>>
        /\ raw[f] # Undef => BaseAccepts(fd, raw[f])

C5_FailureIsFailureAlternative ==
    gw.pc = "responded" =>
        /\ gw.resp.isError => (gw.resp.success = None /\ gw.resp.error # None)
        /\ gw.opFailed => gw.resp.isError

\* C5 (the part that holds): a response is never both alternatives or neither.
C5_OneAlternative ==
    gw.pc = "responded" =>
        /\ gw.resp.isError \in BOOLEAN
        /\ gw.resp.isError => (gw.resp.success = None /\ gw.resp.error # None)

\* C9: a field with a declared default D that the caller leaves out reaches the
\* handler with the value D.
C9_DefaultsDelivered ==
    gw.pc = "running" =>
        \A f \in Fields(gw.name) :
            (inputSchema(gw.name)[f].def # Undef /\ gw.raw[f] = Undef)
                => gw.args[f] = inputSchema(gw.name)[f].def

\* C9 (the case that works): per_page, declared .optional().default(30), arrives as 30.
C9_PerPageDefaulted ==
    /\ gw.pc = "running"
    /\ gw.name = "github_list_workflow_runs"
    /\ gw.raw["per_page"] = Undef
    /\ gw.args["per_page"] = "30"

\* ---------------------------------------------------------------------------
\* execute_command under its timeout, and a second call arriving meanwhile.
\* Times are in milliseconds; the clock jumps from one event instant to the next.
\* ---------------------------------------------------------------------------

\* timeout: args.timeout || 30000
DefaultTimeout == 30000

\* The delay after the timeout within which the response is expected.
Grace == 5000

\* args.timeout after validation: absent (<<>>) or a number.
TimeoutArgs == {<<>>, <<0>>, <<1000>>, <<60000>>}

\* How long the command runs when left alone: never ending (<<>>) or a duration.
RunTimes == {<<>>, <<500>>, <<2000>>, <<45000>>, <<90000>>}

\* What SIGTERM does to the command: the whole subprocess dies; it ignores the
\* signal (or a descendant keeps the output pipes open); the shell dies and the
\* pipes close while a descendant keeps running.
TermEffects == {"dies", "ignores", "orphans"}

EffectiveTimeout(t) == IF t = <<>> \/ t[1] = 0 THEN DefaultTimeout ELSE t[1]

MinOf(S) == CHOOSE x \in S : \A y \in S : x <= y

\* The child_process API the handler awaits.
execBlocking == "execSync"

execAsync == "exec"

BlocksEventLoop(api) == api \in {"execSync", "spawnSync", "execFileSync"}

ExIdle ==
    [pc |-> "idle", timeout |-> <<>>, runTime |-> <<>>, exitCode |-> 0,
     onTerm |-> "dies", clock |-> 0, child |-> "none", termSent |-> FALSE,
     signal |-> None, spawns |-> 0, resp |-> None]

OtherIdle == [pc |-> "idle", duringEx |-> FALSE]

InitExec ==
    /\ ex = ExIdle
    /\ other = OtherIdle
    /\ loopBusy = FALSE
    /\ fsReq = FsIdle
    /\ fsIO = <<>>
    /\ fsResp = Returned(None, None)
    /\ gw = None
    /\ go = None
    /\ reg = None
    /\ wr = None
    /\ cmd = None
    /\ wl = None
    /\ rag = None
    /\ sr = None
    /\ dg = None
    /\ ls = None
    /\ vp = None
    /\ st = None
    /\ pb = None
    /\ ck = None
    /\ li = None
    /\ ns = None
    /\ dv = None

ExRest == <<fsReq, fsIO, fsResp, gw, go, reg, wr, cmd, wl, rag, sr, dg, ls, vp, st, pb, ck, li, ns, dv>>

\* The handler starts the command through the shell and awaits it.
execute_command ==
    /\ ex.pc = "idle"
    /\ ~loopBusy
    /\ \E t \in TimeoutArgs, r \in RunTimes, c \in {0, 1}, e \in TermEffects :
            ex' = [ExIdle EXCEPT !.pc = "awaiting", !.timeout = t, !.runTime = r,
                                 !.exitCode = c, !.onTerm = e, !.child = "running",
                                 !.spawns = 1]
    /\ loopBusy' = BlocksEventLoop(execAsync)
    /\ UNCHANGED <<other, ExRest>>

\* exec's timer: the child ran for options.timeout ms, SIGTERM is sent once.
ExTimeoutFires ==
    /\ ex.pc = "awaiting"
    /\ ex.child = "running"
    /\ ~ex.termSent
    /\ ex.clock = EffectiveTimeout(ex.timeout)
    /\ ex' = [ex EXCEPT !.termSent = TRUE,
                        !.child = CASE ex.onTerm = "dies" -> "exited"
                                    [] ex.onTerm = "orphans" -> "orphaned"
                                    [] OTHER -> "running",
                        !.signal = IF ex.onTerm = "ignores" THEN @ ELSE "SIGTERM"]
    /\ UNCHANGED <<other, loopBusy, ExRest>>

\* The command ends by itself.
ExChildExits ==
    /\ ex.pc = "awaiting"
    /\ ex.child = "running"
    /\ ex.runTime # <<>>
    /\ ex.clock = ex.runTime[1]
    /\ ex' = [ex EXCEPT !.child = "exited"]
    /\ UNCHANGED <<other, loopBusy, ExRest>>

\* exec's callback after the child's close event: the awaited promise settles
\* and the handler returns its result object.
ExCallback ==
    /\ ex.pc = "awaiting"
    /\ ex.child \in {"exited", "orphaned"}
    /\ ex' = [ex EXCEPT !.pc = "responded",
                        !.resp = IF ex.signal = None /\ ex.exitCode = 0
                                 THEN "success" ELSE "failure"]
    /\ loopBusy' = FALSE
    /\ UNCHANGED <<other, ExRest>>

\* The instants at which something is due for the running call.
ExInstants ==
    {EffectiveTimeout(ex.timeout), EffectiveTimeout(ex.timeout) + Grace}
        \cup (IF ex.runTime = <<>> THEN {} ELSE {ex.runTime[1]})

\* Time passes to the next instant, once nothing is due at the present one.
ExAdvance ==
    /\ ex.pc = "awaiting"
    /\ ex.child = "running"
    /\ ~(~ex.termSent /\ ex.clock = EffectiveTimeout(ex.timeout))
    /\ ~(ex.runTime # <<>> /\ ex.clock = ex.runTime[1])
    /\ {i \in ExInstants : i > ex.clock} # {}
    /\ ex' = [ex EXCEPT !.clock = MinOf({i \in ExInstants : i > ex.clock})]
    /\ UNCHANGED <<other, loopBusy, ExRest>>

ExDeliver ==
    /\ ex.pc = "responded"
    /\ ex' = ExIdle
    /\ UNCHANGED <<other, loopBusy, ExRest>>

\* A second inbound call (get_environment): read from the transport,
\* dispatched, run and answered on the same event loop.
OtherReceive ==
    /\ other.pc = "idle"
    /\ ~loopBusy
    /\ other' = [pc |-> "received", duringEx |-> ex.pc = "awaiting"]
    /\ UNCHANGED <<ex, loopBusy, ExRest>>

OtherDispatch ==
    /\ other.pc = "received"
    /\ ~loopBusy
    /\ other' = [other EXCEPT !.pc = "running"]
    /\ UNCHANGED <<ex, loopBusy, ExRest>>

get_environment ==
    /\ other.pc = "running"
    /\ ~loopBusy
    /\ other' = [other EXCEPT !.pc = "responded"]
    /\ UNCHANGED <<ex, loopBusy, ExRest>>

OtherDeliver ==
    /\ other.pc = "responded"
    /\ ~loopBusy
    /\ other' = OtherIdle
    /\ UNCHANGED <<ex, loopBusy, ExRest>>

ExecNext ==
    \/ execute_command
    \/ ExTimeoutFires
    \/ ExChildExits
    \/ ExCallback
    \/ ExAdvance
    \/ ExDeliver
    \/ OtherReceive
    \/ OtherDispatch
    \/ get_environment
    \/ OtherDeliver

SpecExec == InitExec /\ [][ExecNext]_vars

\* The command would run longer than the configured timeout.
OutlivesTimeout ==
    ex.runTime = <<>> \/ ex.runTime[1] > EffectiveTimeout(ex.timeout)

\* C6: when the subprocess of execute_command runs longer than the configured
\* timeout (30000 ms when omitted), a failure response is returned within a
\* bounded time after the timeout, the subprocess is no longer running once the
\* response has been returned, and the call is not retried.
C6_TimeoutTerminates ==
    (ex.pc # "idle" /\ OutlivesTimeout) =>
        /\ ex.spawns = 1
        /\ ex.clock >= EffectiveTimeout(ex.timeout) + Grace => ex.pc = "responded"
        /\ ex.pc = "responded" => (ex.resp = "failure" /\ ex.child = "exited")

\* C6 (the case that works): a command that dies on SIGTERM is answered with a
\* failure at the default timeout.
C6_KilledAtDefaultTimeout ==
    /\ ex.pc = "responded"
    /\ ex.timeout = <<>>
    /\ ex.clock = DefaultTimeout
    /\ ex.signal = "SIGTERM"
    /\ ex.child = "exited"
    /\ ex.resp = "failure"

\* C10: while execute_command is suspended on its subprocess the event loop is
\* free, so a different inbound call can be accepted, dispatched and completed
\* at every stage.
C10_OtherCallsServed ==
    ex.pc = "awaiting" =>
        /\ ~loopBusy
        /\ other.pc = "idle" => ENABLED OtherReceive
        /\ other.pc = "received" => ENABLED OtherDispatch
        /\ other.pc = "running" => ENABLED get_environment
        /\ other.pc = "responded" => ENABLED OtherDeliver

\* C10 (witness): a call that arrived while the command was running has been
\* answered and the command is still running.
C10_ServedWhileSuspended ==
    /\ ex.pc = "awaiting"
    /\ ex.child = "running"
    /\ other.pc = "responded"
    /\ other.duringEx

\* ---------------------------------------------------------------------------
\* The tool arrays of the two servers and the registration loop at startup.
\* ---------------------------------------------------------------------------

filesystemTools ==
    <<"read_file", "write_file", "list_directory", "search_files", "file_info",
      "create_directory">>

cliTools ==
    <<"execute_command", "get_environment", "which_command">>

gitTools ==
    <<"git_status", "git_log", "git_diff", "git_branch", "git_commit", "git_push",
      "git_pull", "git_clone", "git_stash">>

webTools ==
    <<"fetch_webpage", "parse_html", "extract_links", "download_file">>

nodejsTools ==
    <<"npm_install", "npm_run_script", "npm_outdated", "npm_init", "read_package_json">>

pythonTools ==
    <<"python_create_venv", "pip_install", "pip_freeze", "python_run_script",
      "python_version">>

testTools ==
    <<"run_tests", "build_project", "start_dev_server", "lint_code">>

automationTools ==
    <<"validate_project", "create_validation_script", "setup_project_automation",
      "generate_project_docs", "fix_common_issues">>

diagnosticsTools ==
    <<"get_vscode_problems", "read_log_file", "find_log_files", "analyze_error_logs",
      "watch_log_changes", "aggregate_logs", "get_terminal_history", "search_logs",
      "get_xcode_logs", "get_android_logs", "get_flutter_logs",
      "get_react_native_logs">>

githubActionsTools ==
    <<"github_list_workflow_runs", "github_get_workflow_run",
      "github_list_workflow_jobs", "github_get_job_logs", "github_list_workflows",
      "github_get_workflow_run_logs">>

gitlabCITools ==
    <<"gitlab_list_pipelines", "gitlab_get_pipeline", "gitlab_list_pipeline_jobs",
      "gitlab_get_job", "gitlab_get_job_trace", "gitlab_list_project_jobs",
      "gitlab_get_pipeline_variables">>

gitlabAPITools ==
    <<"gitlab_get_group", "gitlab_list_group_subgroups", "gitlab_list_group_projects",
      "gitlab_list_descendant_groups", "gitlab_get_project", "gitlab_list_projects",
      "gitlab_list_issues", "gitlab_get_issue", "gitlab_create_issue",
      "gitlab_update_issue", "gitlab_list_issue_notes", "gitlab_create_issue_note",
      "gitlab_list_merge_requests", "gitlab_get_merge_request",
      "gitlab_create_merge_request", "gitlab_update_merge_request",
      "gitlab_merge_merge_request", "gitlab_list_mr_changes", "gitlab_list_mr_notes",
      "gitlab_create_mr_note", "gitlab_approve_merge_request",
      "gitlab_search_issues_global", "gitlab_search_merge_requests_global",
      "gitlab_search_group_issues", "gitlab_search_group_merge_requests">>

Servers == {"vibe", "gitops"}

\* const allTools = [...]: the arrays spread in the order of the source.
allTools(server) ==
    IF server = "vibe"
    THEN filesystemTools \o cliTools \o gitTools \o webTools \o nodejsTools
            \o pythonTools \o testTools \o automationTools \o diagnosticsTools
    ELSE githubActionsTools \o gitlabCITools \o gitlabAPITools

\* Descriptors a further tool array could contribute; the longest such array.
MaxExtra == 2

ExtraNames == {"read_file", "gitlab_get_job", "new_tool"}

Range(s) == {s[i] : i \in DOMAIN s}

NoDup(s) == \A a, b \in DOMAIN s : s[a] = s[b] => a = b

\* server.registerTool(name, config, handler): a name already registered throws.
registerTool(registry, name, idx) ==
    IF \E e \in Range(registry) : e.name = name
    THEN [threw |-> TRUE, registry |-> registry]
    ELSE [threw |-> FALSE, registry |-> Append(registry, [name |-> name, idx |-> idx])]

\* The loop body with the call wrapped in a try/catch that skips the tool.
RegistrationStepSwallowing(r) ==
    LET res == registerTool(r.registry, r.tools[r.i], r.i) IN
    [r EXCEPT !.registry = res.registry, !.i = @ + 1]

\* for (const tool of allTools) server.registerTool(...): one iteration at the
\* top level of the module; an exception ends the process before main() is called.
RegistrationStep(r) ==
    LET res == registerTool(r.registry, r.tools[r.i], r.i) IN
    IF res.threw
    THEN [r EXCEPT !.pc = "aborted"]
    ELSE [r EXCEPT !.registry = res.registry, !.i = @ + 1]

RegLoading ==
    [pc |-> "load", server |-> None, extra |-> <<>>, tools |-> <<>>, i |-> 1,
     registry |-> <<>>, connected |-> FALSE]

InitRegistry ==
    /\ reg = RegLoading
    /\ fsReq = FsIdle
    /\ fsIO = <<>>
    /\ fsResp = Returned(None, None)
    /\ gw = None
    /\ ex = None
    /\ other = None
    /\ loopBusy = FALSE
    /\ go = None
    /\ wr = None
    /\ cmd = None
    /\ wl = None
    /\ rag = None
    /\ sr = None
    /\ dg = None
    /\ ls = None
    /\ vp = None
    /\ st = None
    /\ pb = None
    /\ ck = None
    /\ li = None
    /\ ns = None
    /\ dv = None

RegRest == <<fsReq, fsIO, fsResp, gw, ex, other, loopBusy, go, wr, cmd, wl, rag, sr, dg, ls, vp, st, pb, ck, li, ns, dv>>

\* The imports are evaluated and allTools is built.
RegImport ==
    /\ reg.pc = "load"
    /\ \E server \in Servers, extra \in SeqsUpTo(ExtraNames, MaxExtra) :
            reg' = [reg EXCEPT !.pc = "registering", !.server = server,
                               !.extra = extra, !.tools = allTools(server) \o extra]
    /\ UNCHANGED RegRest

RegisterEach ==
    /\ reg.pc = "registering"
    /\ reg.i <= Len(reg.tools)
    /\ reg' = RegistrationStep(reg)
    /\ UNCHANGED RegRest

\* main(): the transport is connected once the loop has completed.
main ==
    /\ reg.pc = "registering"
    /\ reg.i > Len(reg.tools)
    /\ reg' = [reg EXCEPT !.pc = "connected", !.connected = TRUE]
    /\ UNCHANGED RegRest

RegistryNext ==
    \/ RegImport
    \/ RegisterEach
    \/ main

SpecRegistry == InitRegistry /\ [][RegistryNext]_vars

\* C8: the registry built from the concatenated tool arrays never holds two
\* tools of the same name; a second registration under a registered name aborts
\* startup before the transport is connected, the first tool being kept.
C8_NoDuplicateRegistration ==
    reg.pc # "load" =>
        /\ \A a, b \in DOMAIN reg.registry :
                reg.registry[a].name = reg.registry[b].name => a = b
        /\ \A e \in Range(reg.registry) :
                /\ reg.tools[e.idx] = e.name
                /\ \A j \in 1..(e.idx - 1) : reg.tools[j] # e.name
        /\ reg.extra = <<>> => reg.pc # "aborted"
        /\ reg.pc = "connected" =>
                (NoDup(reg.tools) /\ Len(reg.registry) = Len(reg.tools))
        /\ reg.pc = "aborted" =>
                /\ ~reg.connected
                /\ ~ENABLED main
                /\ \E e \in Range(reg.registry) :
                        e.name = reg.tools[reg.i] /\ e.idx < reg.i

\* C8 (witness): a further array re-used the name read_file and startup stopped
\* at it with the transport unconnected.
C8_DuplicateAborts ==
    /\ reg.pc = "aborted"
    /\ reg.server = "vibe"
    /\ reg.tools[reg.i] = "read_file"
    /\ reg.i > Len(allTools("vibe"))
    /\ ~reg.connected

\* ---------------------------------------------------------------------------
\* The GitOps server: credentials are read per call, inside the handler.
\* ---------------------------------------------------------------------------

\* process.env.X: unset, empty or a token.
KeyVals == {Undef, "", "tok"}

Provider(tool) ==
    IF tool \in Range(githubActionsTools) THEN "github" ELSE "gitlab"

KeyVar(provider) ==
    IF provider = "github" THEN "GITHUB_API_KEY" ELSE "GITLAB_API_KEY"

\* An error message as its parts; Names: the message contains the word.
NotSet(var) == <<var, "environment variable is not set">>

Names(message, word) == word \in Range(message)

checkGitHubAuthUnchecked(env) ==
    [threw |-> FALSE, token |-> env["GITHUB_API_KEY"], message |-> <<>>]

checkGitHubAuth(env) ==
    IF env["GITHUB_API_KEY"] \in {Undef, ""}
    THEN [threw |-> TRUE, token |-> Undef, message |-> NotSet("GITHUB_API_KEY")]
    ELSE [threw |-> FALSE, token |-> env["GITHUB_API_KEY"], message |-> <<>>]

checkGitLabAuth(env) ==
    IF env["GITLAB_API_KEY"] \in {Undef, ""}
    THEN [threw |-> TRUE, token |-> Undef, message |-> NotSet("GITLAB_API_KEY")]
    ELSE [threw |-> FALSE, token |-> env["GITLAB_API_KEY"], message |-> <<>>]

GoResponse(kind, message) == [kind |-> kind, message |-> message]

GoOff ==
    [pc |-> "off", env |-> [v \in {"GITHUB_API_KEY", "GITLAB_API_KEY"} |-> Undef],
     registered |-> 0, tool |-> None, http |-> 0, token |-> Undef,
     status |-> 0, body |-> "", resp |-> GoResponse(None, <<>>)]

InitGitops ==
    /\ go = GoOff
    /\ fsReq = FsIdle
    /\ fsIO = <<>>
    /\ fsResp = Returned(None, None)
    /\ gw = None
    /\ ex = None
    /\ other = None
    /\ loopBusy = FALSE
    /\ reg = None
    /\ wr = None
    /\ cmd = None
    /\ wl = None
    /\ rag = None
    /\ sr = None
    /\ dg = None
    /\ ls = None
    /\ vp = None
    /\ st = None
    /\ pb = None
    /\ ck = None
    /\ li = None
    /\ ns = None
    /\ dv = None

GoRest == <<fsReq, fsIO, fsResp, gw, ex, other, loopBusy, reg, wr, cmd, wl, rag, sr, dg, ls, vp, st, pb, ck, li, ns, dv>>

\* The process is launched under some environment; the modules load, every
\* tool is registered and the transport is connected. No key is read here.
GoStart ==
    /\ go.pc = "off"
    /\ \E env \in [{"GITHUB_API_KEY", "GITLAB_API_KEY"} -> KeyVals] :
            go' = [go EXCEPT !.pc = "up", !.env = env,
                             !.registered = Len(allTools("gitops"))]
    /\ UNCHANGED GoRest

\* A validated call reaches a handler.
GoCall ==
    /\ go.pc = "up"
    /\ \E tool \in Range(allTools("gitops")) :
            go' = [go EXCEPT !.pc = "called", !.tool = tool, !.http = 0,
                             !.token = Undef, !.status = 0, !.body = "",
                             !.resp = GoResponse(None, <<>>)]
    /\ UNCHANGED GoRest

\* try { const token = check...Auth(); ... await fetch(...) } catch (error) {
\*   return formatToolResponse({ error: `Failed to ...: ${error.message}` }) }
GoHandler(auth) ==
    IF auth.threw
    THEN go' = [go EXCEPT !.pc = "responded",
                          !.resp = GoResponse("error", <<"Failed to">> \o auth.message)]
    ELSE go' = [go EXCEPT !.pc = "fetching", !.token = auth.token, !.http = @ + 1]

githubActionsHandler ==
    /\ go.pc = "called"
    /\ go.tool \in Range(githubActionsTools)
    /\ GoHandler(checkGitHubAuth(go.env))
    /\ UNCHANGED GoRest

gitlabHandler ==
    /\ go.pc = "called"
    /\ go.tool \in Range(gitlabCITools) \cup Range(gitlabAPITools)
    /\ GoHandler(checkGitLabAuth(go.env))
    /\ UNCHANGED GoRest

\* The statuses and bodies a remote service answers with.
HttpStatuses == {200, 204, 401, 404, 500}

HttpBodies == {"", "Not Found", "{\"message\":\"Bad credentials\"}"}

\* response.ok
ResponseOk(status) == status >= 200 /\ status <= 299

makeGitHubRequestUnchecked(status, body) == [threw |-> FALSE, message |-> <<>>]

\* if (!response.ok) throw new Error(`GitHub API error (${response.status}): ${errorText}`)
makeGitHubRequest(status, body) ==
    IF ~ResponseOk(status)
    THEN [threw |-> TRUE, message |-> <<"GitHub API error", ToString(status), body>>]
    ELSE [threw |-> FALSE, message |-> <<>>]

makeGitLabRequest(status, body) ==
    IF ~ResponseOk(status)
    THEN [threw |-> TRUE, message |-> <<"GitLab API error", ToString(status), body>>]
    ELSE [threw |-> FALSE, message |-> <<>>]

\* The HTTP response arrives: data, or a non-ok status thrown and caught by the
\* handler, which returns { error: `Failed to ...: ${error.message}` }.
makeRequest ==
    /\ go.pc = "fetching"
    /\ \E status \in HttpStatuses, body \in HttpBodies :
        LET r == IF Provider(go.tool) = "github"
                 THEN makeGitHubRequest(status, body)
                 ELSE makeGitLabRequest(status, body) IN
        go' = [go EXCEPT !.pc = "responded", !.status = status, !.body = body,
                         !.resp = IF r.threw
                                  THEN GoResponse("error", <<"Failed to">> \o r.message)
                                  ELSE GoResponse("data", <<>>)]
    /\ UNCHANGED GoRest

GoDeliver ==
    /\ go.pc = "responded"
    /\ go' = [go EXCEPT !.pc = "up"]
    /\ UNCHANGED GoRest

GitopsNext ==
    \/ GoStart
    \/ GoCall
    \/ githubActionsHandler
    \/ gitlabHandler
    \/ makeRequest
    \/ GoDeliver

SpecGitops == InitGitops /\ [][GitopsNext]_vars

MissingKey(provider) == go.env[KeyVar(provider)] \in {Undef, ""}

\* C7: with GITHUB_API_KEY (or GITLAB_API_KEY) unset the server still starts
\* and registers all its tools; each call to that provider's tools is answered
\* with an error naming the variable and no HTTP request, and calls to the
\* other provider, whose key is set, go through.
C7_MissingKeyFailsOnlyItsTools ==
    go.pc # "off" =>
        /\ go.registered = Len(allTools("gitops"))
        /\ go.pc = "fetching" => (~MissingKey(Provider(go.tool)) /\ go.token = "tok")
        /\ (go.pc = "responded" /\ MissingKey(Provider(go.tool))) =>
                /\ go.http = 0
                /\ go.resp.kind = "error"
                /\ Names(go.resp.message, KeyVar(Provider(go.tool)))
        /\ (go.pc = "responded" /\ ~MissingKey(Provider(go.tool))) =>
                /\ go.http = 1
                /\ ~Names(go.resp.message, "GITHUB_API_KEY")
                /\ ~Names(go.resp.message, "GITLAB_API_KEY")

\* C7 (witness): GITHUB_API_KEY unset and GITLAB_API_KEY set; a github tool was
\* answered with the error and without a request.
C7_GitHubKeyMissing ==
    /\ go.pc = "responded"
    /\ go.tool = "github_list_workflow_runs"
    /\ go.env["GITHUB_API_KEY"] = Undef
    /\ go.env["GITLAB_API_KEY"] = "tok"
    /\ go.http = 0
    /\ Names(go.resp.message, "GITHUB_API_KEY")

\* ---------------------------------------------------------------------------
\* Mutating handlers: the file operations they start and when they return.
\* ---------------------------------------------------------------------------

MutatingTools ==
    {"write_file", "create_directory", "rag_index_documents",
     "create_validation_script", "fix_common_issues"}

FsOp(op, path) == [op |-> op, path |-> path]

\* args.path of write_file / create_directory, with path.dirname of each.
WritePaths == {"a.txt", "d/b.txt"}

WrDirname(p) == IF p = "d/b.txt" THEN "d" ELSE "."

\* The files fix_common_issues may write, in the order of the handler.
FixTargets == <<"package.json", ".gitignore", "README.md">>

\* The file operations of one invocation, in program order.
WritePlans(tool) ==
    CASE tool = "write_file" ->
            {<<FsOp("mkdir", WrDirname(p)), FsOp("writeFile", p)>> : p \in WritePaths}
      [] tool = "create_directory" ->
            {<<FsOp("mkdir", p)>> : p \in {"d", "d/e"}}
      [] tool = "rag_index_documents" ->
            {<<FsOp("mkdir", ".rag-index"), FsOp("writeFile", ".rag-index/index.json")>>}
      [] tool = "create_validation_script" ->
            {<<FsOp("writeFile", "package.json")>>}
      [] OTHER ->
            {SelectSeq([i \in 1..3 |-> FsOp("writeFile", FixTargets[i])],
                       LAMBDA o : o.path \in needed) :
                needed \in SUBSET Range(FixTargets)}

\* write_file and create_directory have no try/catch around their fs calls.
WrGuarded(tool) == tool \notin {"write_file", "create_directory"}

AwaitsNothing(tool) == FALSE

\* Every fs call of the mutating handlers is written `await fs....(...)`.
Awaits(tool) == TRUE

WrIdle ==
    [pc |-> "idle", tool |-> None, plan |-> <<>>, k |-> 1, inflight |-> {},
     disk |-> {}, resp |-> None, seen |-> {}]

InitWrites ==
    /\ wr = WrIdle
    /\ fsReq = FsIdle
    /\ fsIO = <<>>
    /\ fsResp = Returned(None, None)
    /\ gw = None
    /\ ex = None
    /\ other = None
    /\ loopBusy = FALSE
    /\ go = None
    /\ reg = None
    /\ cmd = None
    /\ wl = None
    /\ rag = None
    /\ sr = None
    /\ dg = None
    /\ ls = None
    /\ vp = None
    /\ st = None
    /\ pb = None
    /\ ck = None
    /\ li = None
    /\ ns = None
    /\ dv = None

WrRest == <<fsReq, fsIO, fsResp, gw, ex, other, loopBusy, go, reg, cmd, wl, rag, sr, dg, ls, vp, st, pb, ck, li, ns, dv>>

\* The client issues a mutating call.
WrCall ==
    /\ wr.pc = "idle"
    /\ \E tool \in MutatingTools :
       \E plan \in WritePlans(tool) :
            wr' = [WrIdle EXCEPT !.pc = "running", !.tool = tool, !.plan = plan]
    /\ UNCHANGED WrRest

\* The handler reaches its next fs call and starts the operation.
WrIssue ==
    /\ wr.pc = "running"
    /\ wr.k <= Len(wr.plan)
    /\ Awaits(wr.tool) => wr.inflight = {}
    /\ wr' = [wr EXCEPT !.inflight = @ \cup {wr.plan[wr.k]}, !.k = @ + 1]
    /\ UNCHANGED WrRest

\* A started operation completes, or fails; an awaited failure is thrown into
\* the handler, which returns {success: false} or lets it escape.
WrSettle ==
    /\ wr.inflight # {}
    /\ \E o \in wr.inflight, ok \in BOOLEAN :
            wr' = [wr EXCEPT
                     !.inflight = @ \ {o},
                     !.disk = IF ok THEN @ \cup {o} ELSE @,
                     !.pc = IF ~ok /\ Awaits(wr.tool) /\ wr.pc = "running"
                            THEN "responded" ELSE @,
                     !.resp = IF ~ok /\ Awaits(wr.tool) /\ wr.pc = "running"
                              THEN (IF WrGuarded(wr.tool) THEN "failure" ELSE "threw")
                              ELSE @]
    /\ UNCHANGED WrRest

\* The handler reaches its return statement.
WrReturn ==
    /\ wr.pc = "running"
    /\ wr.k > Len(wr.plan)
    /\ Awaits(wr.tool) => wr.inflight = {}
    /\ wr' = [wr EXCEPT !.pc = "responded", !.resp = "success"]
    /\ UNCHANGED WrRest

\* Having received the response the client issues its next call, which reads
\* the file system.
WrNextCall ==
    /\ wr.pc = "responded"
    /\ wr' = [wr EXCEPT !.pc = "read", !.seen = wr.disk]
    /\ UNCHANGED WrRest

WrDone ==
    /\ wr.pc = "read"
    /\ wr.inflight = {}
    /\ wr' = WrIdle
    /\ UNCHANGED WrRest

WritesNext ==
    \/ WrCall
    \/ WrIssue
    \/ WrSettle
    \/ WrReturn
    \/ WrNextCall
    \/ WrDone

SpecWrites == InitWrites /\ [][WritesNext]_vars

\* C11: no mutating handler returns its response while one of its own writes
\* is pending, so a client that awaits the response finds every file effect of
\* the call complete and visible to its next call.
C11_WritesCompleteBeforeResponse ==
    /\ wr.pc \in {"responded", "read"} => wr.inflight = {}
    /\ (wr.pc \in {"responded", "read"} /\ wr.resp = "success") =>
            Range(wr.plan) \subseteq wr.disk
    /\ (wr.pc = "read" /\ wr.resp = "success") => Range(wr.plan) \subseteq wr.seen

\* C11 (witness): rag_index_documents answered, and the next call sees both the
\* index directory and index.json.
C11_IndexVisibleToNextCall ==
    /\ wr.pc = "read"
    /\ wr.tool = "rag_index_documents"
    /\ wr.resp = "success"
    /\ FsOp("writeFile", ".rag-index/index.json") \in wr.seen
    /\ FsOp("mkdir", ".rag-index") \in wr.seen

\* ---------------------------------------------------------------------------
\* execute_command: the working directory the command is run in.
\* ---------------------------------------------------------------------------

\* args.cwd: left out (<<>>) or a path.
CwdArgs == {<<>>} \cup {<<p>> : p \in InputPaths}

\* The options object passed to exec: { cwd: workspacePath, timeout, maxBuffer }.
execOptions(args) == [cwd |-> workspacePath]

CmdIdle == [pc |-> "idle", cwd |-> <<>>, ranIn |-> <<>>]

InitCwd ==
    /\ cmd = CmdIdle
    /\ fsReq = FsIdle
    /\ fsIO = <<>>
    /\ fsResp = Returned(None, None)
    /\ gw = None
    /\ ex = None
    /\ other = None
    /\ loopBusy = FALSE
    /\ go = None
    /\ reg = None
    /\ wr = None
    /\ wl = None
    /\ rag = None
    /\ sr = None
    /\ dg = None
    /\ ls = None
    /\ vp = None
    /\ st = None
    /\ pb = None
    /\ ck = None
    /\ li = None
    /\ ns = None
    /\ dv = None

CwdRest == <<fsReq, fsIO, fsResp, gw, ex, other, loopBusy, go, reg, wr, wl, rag, sr, dg, ls, vp, st, pb, ck, li, ns, dv>>

CmdCall ==
    /\ cmd.pc = "idle"
    /\ \E c \in CwdArgs : cmd' = [CmdIdle EXCEPT !.pc = "called", !.cwd = c]
    /\ UNCHANGED CwdRest

\* await execAsync(args.command, options): the shell starts in options.cwd.
CmdSpawn ==
    /\ cmd.pc = "called"
    /\ cmd' = [cmd EXCEPT !.pc = "spawned", !.ranIn = execOptions(cmd).cwd]
    /\ UNCHANGED CwdRest

CmdDone ==
    /\ cmd.pc = "spawned"
    /\ cmd' = CmdIdle
    /\ UNCHANGED CwdRest

CwdNext ==
    \/ CmdCall
    \/ CmdSpawn
    \/ CmdDone

SpecCwd == InitCwd /\ [][CwdNext]_vars

\* C12: execute_command runs the command in the cwd argument resolved against
\* the workspace root, and in the workspace root when cwd is omitted or ".".
C12_RunsInResolvedCwd ==
    cmd.pc = "spawned" =>
        cmd.ranIn = IF cmd.cwd = <<>> THEN workspacePath
                    ELSE PathResolve(workspacePath, cmd.cwd[1])

\* C12 (the case that works): with cwd "." the command runs in the workspace root.
C12_DotRunsInRoot ==
    /\ cmd.pc = "spawned"
    /\ cmd.cwd = <<[abs |-> FALSE, segs |-> <<sDot>>]>>
    /\ cmd.ranIn = workspacePath

\* C13: for every github_* and gitlab_* tool a non-2xx HTTP response yields a
\* returned response (nothing leaves the handler) whose error text contains the
\* status code and the remote service's body verbatim.
C13_HttpErrorReported ==
    (go.pc = "responded" /\ go.http = 1 /\ ~ResponseOk(go.status)) =>
        /\ go.resp.kind = "error"
        /\ Names(go.resp.message, ToString(go.status))
        /\ Names(go.resp.message, go.body)

\* C13 (witness): gitlab_get_job_trace answered for a 401 with the service's body.
C13_NotFoundReported ==
    /\ go.pc = "responded"
    /\ go.tool = "gitlab_get_job_trace"
    /\ go.status = 401
    /\ go.body = "{\"message\":\"Bad credentials\"}"
    /\ go.resp = GoResponse("error", <<"Failed to", "GitLab API error", "401",
                                       "{\"message\":\"Bad credentials\"}">>)

\* ---------------------------------------------------------------------------
\* watch_log_changes polled by a client over a log file that only grows.
\* Positions and sizes are in bytes.
\* ---------------------------------------------------------------------------

\* maxBytes: args.maxBytes || 10240
DefaultMaxBytes == 10240

\* The polls of one client session.
MaxCalls == 3

\* File size when the session starts, and the amounts appended between polls.
InitialSizes == {0, 1, 10241}

Appends == {0, 1, 3, 10241}

\* args.maxBytes: left out (<<>>) or a number.
MaxBytesArgs == {<<>>, <<0>>, <<2>>}

Max(a, b) == IF a >= b THEN a ELSE b

\* x || y for an optional number: y when x is undefined or 0.
OrElse(x, y) == IF x = <<>> \/ x[1] = 0 THEN y ELSE x[1]

\* const startPosition = args.lastReadPosition || Math.max(0, stats.size - (args.maxBytes || 10240))
startPosition(args, size) ==
    OrElse(args.lastReadPosition, Max(0, size - OrElse(args.maxBytes, DefaultMaxBytes)))

\* The response: the bytes [start, start + bytes) as newContent, nextReadPosition.
WlResponse(args, size) ==
    LET bytesToRead == size - startPosition(args, size) IN
    [start |-> startPosition(args, size),
     bytes |-> IF bytesToRead <= 0 THEN 0 ELSE bytesToRead,
     nextReadPosition |-> size]

WlStart ==
    [pc |-> "start", size |-> 0, calls |-> 0, last |-> <<>>, grown |-> FALSE,
     args |-> [lastReadPosition |-> <<>>, maxBytes |-> <<>>],
     resp |-> [start |-> 0, bytes |-> 0, nextReadPosition |-> 0]]

InitWatch ==
    /\ wl = WlStart
    /\ fsReq = FsIdle
    /\ fsIO = <<>>
    /\ fsResp = Returned(None, None)
    /\ gw = None
    /\ ex = None
    /\ other = None
    /\ loopBusy = FALSE
    /\ go = None
    /\ reg = None
    /\ wr = None
    /\ cmd = None
    /\ rag = None
    /\ sr = None
    /\ dg = None
    /\ ls = None
    /\ vp = None
    /\ st = None
    /\ pb = None
    /\ ck = None
    /\ li = None
    /\ ns = None
    /\ dv = None

WlRest == <<fsReq, fsIO, fsResp, gw, ex, other, loopBusy, go, reg, wr, cmd, rag, sr, dg, ls, vp, st, pb, ck, li, ns, dv>>

\* The log file exists with some size when the client starts polling.
WlLogExists ==
    /\ wl.pc = "start"
    /\ \E n \in InitialSizes : wl' = [wl EXCEPT !.pc = "idle", !.size = n]
    /\ UNCHANGED WlRest

\* The writer appends to the log between two polls.
WlAppend ==
    /\ wl.pc = "idle"
    /\ ~wl.grown
    /\ wl.calls < MaxCalls
    /\ \E n \in Appends : wl' = [wl EXCEPT !.size = @ + n, !.grown = TRUE]
    /\ UNCHANGED WlRest

\* The client polls: no lastReadPosition the first time, the previous
\* response's nextReadPosition afterwards.
WlCall ==
    /\ wl.pc = "idle"
    /\ wl.calls < MaxCalls
    /\ \E mb \in MaxBytesArgs :
            wl' = [wl EXCEPT !.pc = "called",
                             !.args = [lastReadPosition |-> wl.last, maxBytes |-> mb]]
    /\ UNCHANGED WlRest

\* watch_log_changes.handler: stat, read from startPosition to the size, respond.
WlHandler ==
    /\ wl.pc = "called"
    /\ wl' = [wl EXCEPT !.pc = "responded", !.resp = WlResponse(wl.args, wl.size)]
    /\ UNCHANGED WlRest

WlDeliver ==
    /\ wl.pc = "responded"
    /\ wl' = [wl EXCEPT !.pc = "idle", !.calls = @ + 1, !.grown = FALSE,
                        !.last = <<wl.resp.nextReadPosition>>]
    /\ UNCHANGED WlRest

WatchNext ==
    \/ WlLogExists
    \/ WlAppend
    \/ WlCall
    \/ WlHandler
    \/ WlDeliver

SpecWatch == InitWatch /\ [][WatchNext]_vars

\* C14: a client that passes each response's nextReadPosition as the next
\* lastReadPosition gets every byte appended after its first call exactly once
\* and in order: each later response starts where the previous one ended and
\* runs to the end of the file, for every initial size (zero included).
C14_AppendedBytesExactlyOnce ==
    (wl.pc = "responded" /\ wl.args.lastReadPosition # <<>>) =>
        /\ wl.resp.start = wl.args.lastReadPosition[1]
        /\ wl.resp.start + wl.resp.bytes = wl.size
        /\ wl.resp.nextReadPosition = wl.size

\* C14 (the case that works): a later poll from a non-zero position returns
\* exactly the 10241 bytes appended since.
C14_TailFromNonZero ==
    /\ wl.pc = "responded"
    /\ wl.args.lastReadPosition = <<1>>
    /\ wl.size = 10242
    /\ wl.resp.start = 1
    /\ wl.resp.bytes = 10241

\* C15: a response carries at most maxBytes bytes of content (10240 when
\* maxBytes is omitted), with or without lastReadPosition.
C15_AtMostMaxBytes ==
    wl.pc = "responded" =>
        wl.resp.bytes <= (IF wl.args.maxBytes = <<>> THEN DefaultMaxBytes
                          ELSE wl.args.maxBytes[1])

\* C15 (the case that works): the first poll of a 10241-byte file, maxBytes
\* omitted, returns the last 10240 bytes.
C15_FirstPollWindowed ==
    /\ wl.pc = "responded"
    /\ wl.args.lastReadPosition = <<>>
    /\ wl.args.maxBytes = <<>>
    /\ wl.size = 10241
    /\ wl.resp.bytes = DefaultMaxBytes

\* ---------------------------------------------------------------------------
\* The RAG tools: the documents under RAG_DOCS_PATH (set), .rag-index/index.json
\* on disk and the in-memory indexCache.  An absent index is <<>>, a present
\* one <<index>>.
\* ---------------------------------------------------------------------------

\* The files getIndexableFiles can list, in the order glob returns them.
Files == <<"f1", "f2">>

\* A file is absent (None), unreadable ("!") or has a content.
DocContents == {None, "!", "x", "y"}

Readable(docs) == {f \in Range(Files) : docs[f] \notin {None, "!"}}

\* crypto.createHash("md5").update(content).digest("hex")
hashContent(content) == <<"md5", content>>

\* chunkText(content, filePath): the content "y" is long enough for two chunks.
chunkText(content, filePath) ==
    {[filePath |-> filePath, chunkIndex |-> i, content |-> content] :
        i \in 0..(IF content = "y" THEN 1 ELSE 0)}

EmptyFn == [x \in {} |-> None]

unchangedIfListed(existing, f, hash) ==
    existing # <<>> /\ f \in DOMAIN existing[1].fileHashes

\* existingIndex?.fileHashes[filePath] === hash
unchanged(existing, f, hash) ==
    /\ existing # <<>>
    /\ f \in DOMAIN existing[1].fileHashes
    /\ existing[1].fileHashes[f] = hash

RECURSIVE indexFiles(_, _, _, _, _)
\* for (const filePath of files) { ... }: hash each readable file, carry over
\* the chunks of an unchanged one, chunk the others.
indexFiles(files, existing, docs, forceReindex, acc) ==
    IF files = <<>> THEN acc
    ELSE LET f == Head(files)
             hash == hashContent(docs[f])
         IN
         IF docs[f] \in {None, "!"}
         THEN indexFiles(Tail(files), existing, docs, forceReindex, acc)
         ELSE IF forceReindex # "true" /\ unchanged(existing, f, hash)
         THEN indexFiles(Tail(files), existing, docs, forceReindex,
                  [acc EXCEPT !.fileHashes = @ @@ (f :> hash),
                              !.chunks = @ \cup {c \in existing[1].chunks : c.filePath = f},
                              !.skippedCount = @ + 1])
         ELSE indexFiles(Tail(files), existing, docs, forceReindex,
                  [acc EXCEPT !.fileHashes = @ @@ (f :> hash),
                              !.chunks = @ \cup chunkText(docs[f], f),
                              !.indexedCount = @ + 1])

\* async function loadIndex(): the cache when set, else index.json when present.
loadIndex(r) == IF r.cache # <<>> THEN r.cache ELSE r.disk

notConfirmedWhenFalse(confirm) == confirm = "false"

\* if (!args.confirm)
notConfirmed(confirm) == confirm # "true"

RagTools ==
    {"rag_index_documents", "rag_search", "rag_list_indexed", "rag_status",
     "rag_clear_index"}

\* The argument the tool looks at: forceReindex or confirm.
RagArgs(tool) ==
    IF tool \in {"rag_index_documents", "rag_clear_index"}
    THEN {"true", "false", Undef} ELSE {Undef}

RagResp(success, text, indexedFiles, skippedFiles) ==
    [success |-> success, text |-> text, indexedFiles |-> indexedFiles,
     skippedFiles |-> skippedFiles]

RagIdle ==
    [tool |-> None, arg |-> Undef, existing |-> <<>>, beforeDisk |-> <<>>,
     beforeCache |-> <<>>, resp |-> RagResp(FALSE, None, 0, 0)]

InitRag ==
    /\ rag = [pc |-> "idle", docs |-> [f \in Range(Files) |-> None], disk |-> <<>>,
              cache |-> <<>>, cleared |-> FALSE, call |-> RagIdle]
    /\ sr = None
    /\ fsReq = FsIdle
    /\ fsIO = <<>>
    /\ fsResp = Returned(None, None)
    /\ gw = None
    /\ ex = None
    /\ other = None
    /\ loopBusy = FALSE
    /\ go = None
    /\ reg = None
    /\ wr = None
    /\ cmd = None
    /\ wl = None
    /\ dg = None
    /\ ls = None
    /\ vp = None
    /\ st = None
    /\ pb = None
    /\ ck = None
    /\ li = None
    /\ ns = None
    /\ dv = None

RagRest == <<fsReq, fsIO, fsResp, gw, ex, other, loopBusy, go, reg, wr, cmd, wl, sr, dg, ls, vp, st, pb, ck, li, ns, dv>>

\* A document is created, edited, made unreadable or deleted.
RagEditDocs ==
    /\ rag.pc = "idle"
    /\ \E f \in Range(Files), c \in DocContents :
            /\ rag.docs[f] # c
            /\ rag' = [rag EXCEPT !.docs[f] = c]
    /\ UNCHANGED RagRest

\* index.json is removed from outside the server (by hand, or by another
\* server process working on the same RAG_DOCS_PATH).
RagIndexFileRemoved ==
    /\ rag.pc = "idle"
    /\ rag.disk # <<>>
    /\ rag' = [rag EXCEPT !.disk = <<>>]
    /\ UNCHANGED RagRest

RagCall ==
    /\ rag.pc = "idle"
    /\ \E tool \in RagTools :
       \E arg \in RagArgs(tool) :
            rag' = [rag EXCEPT !.pc = "called",
                               !.call = [RagIdle EXCEPT !.tool = tool, !.arg = arg,
                                                        !.existing = loadIndex(rag),
                                                        !.beforeDisk = rag.disk,
                                                        !.beforeCache = rag.cache]]
    /\ UNCHANGED RagRest

RagRespond(resp, disk, cache, cleared) ==
    rag' = [rag EXCEPT !.pc = "responded", !.call.resp = resp, !.disk = disk,
                       !.cache = cache, !.cleared = cleared]

rag_index_documents ==
    /\ rag.pc = "called"
    /\ rag.call.tool = "rag_index_documents"
    /\ LET existing == loadIndex(rag)
           run == indexFiles(Files, existing, rag.docs, rag.call.arg,
                             [chunks |-> {}, fileHashes |-> EmptyFn,
                              indexedCount |-> 0, skippedCount |-> 0])
           index == [chunks |-> run.chunks, fileHashes |-> run.fileHashes]
       IN \E saved \in BOOLEAN :
            IF saved
            THEN RagRespond(RagResp(TRUE, "Documents indexed successfully",
                                    run.indexedCount, run.skippedCount),
                            <<index>>, <<index>>, FALSE)
            ELSE RagRespond(RagResp(FALSE, IoError, 0, 0), rag.disk, existing, rag.cleared)
    /\ UNCHANGED RagRest

rag_search ==
    /\ rag.pc = "called"
    /\ rag.call.tool = "rag_search"
    /\ LET index == loadIndex(rag) IN
       IF index = <<>> \/ index[1].chunks = {}
       THEN RagRespond(RagResp(FALSE, "No documents indexed", 0, 0),
                       rag.disk, index, rag.cleared)
       ELSE RagRespond(RagResp(TRUE, "results", 0, 0), rag.disk, index, rag.cleared)
    /\ UNCHANGED RagRest

rag_list_indexed ==
    /\ rag.pc = "called"
    /\ rag.call.tool = "rag_list_indexed"
    /\ LET index == loadIndex(rag) IN
       IF index = <<>>
       THEN RagRespond(RagResp(FALSE, "No index found", 0, 0), rag.disk, index, rag.cleared)
       ELSE RagRespond(RagResp(TRUE, "files", 0, 0), rag.disk, index, rag.cleared)
    /\ UNCHANGED RagRest

rag_status ==
    /\ rag.pc = "called"
    /\ rag.call.tool = "rag_status"
    /\ LET index == loadIndex(rag) IN
       RagRespond(RagResp(TRUE, IF index # <<>> THEN "indexed: true" ELSE "indexed: false",
                          0, 0),
                  rag.disk, index, rag.cleared)
    /\ UNCHANGED RagRest

\* confirm absent is refused by the schema before the handler; the handler's
\* own check refuses it as well.
rag_clear_index ==
    /\ rag.pc = "called"
    /\ rag.call.tool = "rag_clear_index"
    /\ IF notConfirmed(rag.call.arg)
       THEN RagRespond(RagResp(FALSE, "Must set confirm: true to clear the index", 0, 0),
                       rag.disk, rag.cache, rag.cleared)
       ELSE IF rag.disk = <<>>
       THEN \* fs.unlink rejects with ENOENT: the catch answers, indexCache is kept
            RagRespond(RagResp(TRUE, "No index to clear", 0, 0),
                       rag.disk, rag.cache, TRUE)
       ELSE \E unlinked \in BOOLEAN :
            IF unlinked
            THEN RagRespond(RagResp(TRUE, "RAG index cleared successfully", 0, 0),
                            <<>>, <<>>, TRUE)
            ELSE RagRespond(RagResp(FALSE, IoError, 0, 0), rag.disk, rag.cache, rag.cleared)
    /\ UNCHANGED RagRest

RagDeliver ==
    /\ rag.pc = "responded"
    /\ rag' = [rag EXCEPT !.pc = "idle", !.call = RagIdle]
    /\ UNCHANGED RagRest

RagNext ==
    \/ RagEditDocs
    \/ RagIndexFileRemoved
    \/ RagCall
    \/ rag_index_documents
    \/ rag_search
    \/ rag_list_indexed
    \/ rag_status
    \/ rag_clear_index
    \/ RagDeliver

SpecRag == InitRag /\ [][RagNext]_vars

\* C16: once rag_clear_index with confirm=true has answered success, and until
\* rag_index_documents runs again, nothing is indexed any more: index.json and
\* indexCache are both gone, rag_search answers 'No documents indexed',
\* rag_list_indexed finds no index and rag_status reports indexed: false.
C16_ClearLeavesNothingIndexed ==
    rag.cleared =>
        /\ rag.disk = <<>>
        /\ rag.cache = <<>>
        /\ (rag.pc = "responded" /\ rag.call.tool = "rag_search")
                => ~rag.call.resp.success /\ rag.call.resp.text = "No documents indexed"
        /\ (rag.pc = "responded" /\ rag.call.tool = "rag_list_indexed")
                => ~rag.call.resp.success /\ rag.call.resp.text = "No index found"
        /\ (rag.pc = "responded" /\ rag.call.tool = "rag_status")
                => rag.call.resp.text = "indexed: false"

\* C16 witness: a confirmed clear has answered success after finding index.json
\* on disk and an index in the cache, and both are gone.
C16_ClearedDiskAndCache ==
    /\ rag.pc = "responded"
    /\ rag.call.tool = "rag_clear_index"
    /\ rag.call.arg = "true"
    /\ rag.call.resp.success
    /\ rag.call.beforeDisk # <<>>
    /\ rag.call.beforeCache # <<>>
    /\ rag.disk = <<>>
    /\ rag.cache = <<>>

\* C17: rag_clear_index with confirm false or absent answers a failure and
\* leaves index.json and indexCache as they were.
C17_UnconfirmedClearChangesNothing ==
    (rag.pc = "responded" /\ rag.call.tool = "rag_clear_index"
        /\ rag.call.arg # "true") =>
        /\ ~rag.call.resp.success
        /\ rag.disk = rag.call.beforeDisk
        /\ rag.cache = rag.call.beforeCache

\* C17 witness: an unconfirmed clear has been refused while an index was on
\* disk and in the cache.
C17_RefusedWithIndexPresent ==
    /\ rag.pc = "responded"
    /\ rag.call.tool = "rag_clear_index"
    /\ rag.call.arg = Undef
    /\ ~rag.call.resp.success
    /\ rag.disk # <<>>
    /\ rag.cache # <<>>

ChangedFiles(existing, docs) ==
    {f \in Readable(docs) :
        \/ existing = <<>>
        \/ f \notin DOMAIN existing[1].fileHashes
        \/ existing[1].fileHashes[f] # hashContent(docs[f])}

MaxChunks == 6

\* default: 5 of topK
DefaultTopK == 5

\* default: 0.1 of minScore, in thousandths
DefaultMinScore == 100

\* chunk.filePath, as characters
ChunkPaths == {<<"a", ".", "M", "D">>, <<"b", ".", "t", "s">>}

\* cosineSimilarity(queryVector, chunk.tfidfVector) for the query of the call
ChunkScores == {50, 900}

ChunkKinds == [filePath : ChunkPaths, score : ChunkScores]

TopKArgs == {<<>>, <<0>>, <<2>>}

MinScoreArgs == {<<>>, <<0>>, <<50>>}

FileFilterArgs == {<<>>, <<<<"m", "d">>>>}

SearchArgs == [topK : TopKArgs, minScore : MinScoreArgs, fileFilter : FileFilterArgs]

toLower(c) == IF c = "M" THEN "m" ELSE IF c = "D" THEN "d" ELSE c

\* new RegExp(pattern, "i").test(text) for a pattern of literal characters
regexTest(pattern, text) ==
    \E i \in 0..(Len(text) - Len(pattern)) :
        \A j \in 1..Len(pattern) : toLower(text[i + j]) = toLower(pattern[j])

RECURSIVE insertByScore(_, _)
\* r goes behind every element whose score is not lower: the sort is stable.
insertByScore(sorted, r) ==
    IF sorted = <<>> THEN <<r>>
    ELSE IF Head(sorted).score >= r.score
         THEN <<Head(sorted)>> \o insertByScore(Tail(sorted), r)
         ELSE <<r>> \o sorted

RECURSIVE sortByScore(_)
\* .sort((a, b) => b.score - a.score)
sortByScore(s) ==
    IF s = <<>> THEN <<>>
    ELSE insertByScore(sortByScore(SubSeq(s, 1, Len(s) - 1)), s[Len(s)])

\* .slice(0, n)
slice(s, n) == SubSeq(s, 1, IF n < Len(s) THEN n ELSE Len(s))

PresentOrElse(x, y) == IF x # <<>> THEN x[1] ELSE y

\* results of the handler for the scored chunks
searchResults(chunks, args) ==
    LET scored == [i \in 1..Len(chunks) |->
                      [chunk |-> i, filePath |-> chunks[i].filePath,
                       score |-> chunks[i].score]]
        MatchesFilter(r) == regexTest(args.fileFilter[1], r.filePath)
        filtered == IF args.fileFilter # <<>> THEN SelectSeq(scored, MatchesFilter)
                    ELSE scored
        AboveMin(r) == r.score >= OrElse(args.minScore, DefaultMinScore)
    IN slice(sortByScore(SelectSeq(filtered, AboveMin)), OrElse(args.topK, DefaultTopK))

SrIdle == [topK |-> <<>>, minScore |-> <<>>, fileFilter |-> <<>>]

InitSearch ==
    /\ sr = [pc |-> "idle", chunks |-> <<>>, args |-> SrIdle, results |-> <<>>]
    /\ fsReq = FsIdle
    /\ fsIO = <<>>
    /\ fsResp = Returned(None, None)
    /\ gw = None
    /\ ex = None
    /\ other = None
    /\ loopBusy = FALSE
    /\ go = None
    /\ reg = None
    /\ wr = None
    /\ cmd = None
    /\ wl = None
    /\ rag = None
    /\ dg = None
    /\ ls = None
    /\ vp = None
    /\ st = None
    /\ pb = None
    /\ ck = None
    /\ li = None
    /\ ns = None
    /\ dv = None

SrRest == <<fsReq, fsIO, fsResp, gw, ex, other, loopBusy, go, reg, wr, cmd, wl, rag, dg, ls, vp, st, pb, ck, li, ns, dv>>

\* rag_index_documents has put one more chunk into the index.
SrIndexChunk ==
    /\ sr.pc = "idle"
    /\ Len(sr.chunks) < MaxChunks
    /\ \E c \in ChunkKinds : sr' = [sr EXCEPT !.chunks = Append(@, c)]
    /\ UNCHANGED SrRest

SrCall ==
    /\ sr.pc = "idle"
    /\ sr.chunks # <<>>
    /\ \E args \in SearchArgs : sr' = [sr EXCEPT !.pc = "called", !.args = args]
    /\ UNCHANGED SrRest

SrSearch ==
    /\ sr.pc = "called"
    /\ sr' = [sr EXCEPT !.pc = "responded", !.results = searchResults(sr.chunks, sr.args)]
    /\ UNCHANGED SrRest

SrDeliver ==
    /\ sr.pc = "responded"
    /\ sr' = [sr EXCEPT !.pc = "idle", !.args = SrIdle, !.results = <<>>]
    /\ UNCHANGED SrRest

SearchNext ==
    \/ SrIndexChunk
    \/ SrCall
    \/ SrSearch
    \/ SrDeliver

SpecSearch == InitSearch /\ [][SearchNext]_vars

\* The chunks a call asks for: on a path matching fileFilter, scored at least
\* minScore (0.1 when omitted).
SrEligible ==
    {i \in 1..Len(sr.chunks) :
        /\ sr.args.fileFilter # <<>> => regexTest(sr.args.fileFilter[1], sr.chunks[i].filePath)
        /\ sr.chunks[i].score >= PresentOrElse(sr.args.minScore, DefaultMinScore)}

\* C19: rag_search returns exactly the topK (5 when omitted) highest-scoring
\* chunks among those matching fileFilter with score >= minScore (0.1 when
\* omitted), in non-increasing order of score, for every supplied topK >= 0 and
\* minScore in [0, 1].
C19_TopKAboveMinScore ==
    sr.pc = "responded" =>
        LET topK == PresentOrElse(sr.args.topK, DefaultTopK)
            returned == {sr.results[k].chunk : k \in 1..Len(sr.results)}
        IN
        /\ returned \subseteq SrEligible
        /\ Cardinality(returned) = Len(sr.results)
        /\ Len(sr.results) = (IF topK < Cardinality(SrEligible) THEN topK
                              ELSE Cardinality(SrEligible))
        /\ \A k \in 1..(Len(sr.results) - 1) : sr.results[k].score >= sr.results[k + 1].score
        /\ \A i \in SrEligible \ returned, j \in returned :
                sr.chunks[i].score <= sr.chunks[j].score

\* C19 witness: topK 2, minScore 0.05 and a fileFilter, on an index with more
\* than two eligible chunks of different scores: the two best come back in order.
C19_TwoBestOfMany ==
    /\ sr.pc = "responded"
    /\ sr.args = [topK |-> <<2>>, minScore |-> <<50>>, fileFilter |-> <<<<"m", "d">>>>]
    /\ Cardinality(SrEligible) > 2
    /\ sr.chunks[1].score = 50
    /\ Len(sr.results) = 2
    /\ sr.results[1].score = 900
    /\ sr.results[2].score = 50

\* ---------------------------------------------------------------------------
\* analyze_error_logs: the loop over the lines of the log and the stack traces
\* it records.
\* ---------------------------------------------------------------------------

MaxLines == 4

HeaderLine == "TypeError: x is not a function"

FrameLine == "    at f (a.js:1:1)"

DottedLine == "  java.lang.IllegalStateException: closed"

PlainLine == "request served"

LogLines == {HeaderLine, FrameLine, DottedLine, PlainLine}

\* /Exception|Error:/.test(line)
isException(line) == line \in {HeaderLine, DottedLine}

\* /^\s+at\s/.test(line)
isAtFrame(line) == line = FrameLine

\* /^\s+\w+\./.test(line)
isDotted(line) == line = DottedLine

ExtractArgs == {"true", "false", Undef}

DgIdle ==
    [pc |-> "idle", lines |-> <<>>, extractStackTraces |-> Undef, i |-> 0,
     inStackTrace |-> FALSE, currentStackTrace |-> <<>>, stackTraces |-> <<>>]

InitLogs ==
    /\ dg = DgIdle
    /\ fsReq = FsIdle
    /\ fsIO = <<>>
    /\ fsResp = Returned(None, None)
    /\ gw = None
    /\ ex = None
    /\ other = None
    /\ loopBusy = FALSE
    /\ go = None
    /\ reg = None
    /\ wr = None
    /\ cmd = None
    /\ wl = None
    /\ rag = None
    /\ sr = None
    /\ ls = None
    /\ vp = None
    /\ st = None
    /\ pb = None
    /\ ck = None
    /\ li = None
    /\ ns = None
    /\ dv = None

DgRest == <<fsReq, fsIO, fsResp, gw, ex, other, loopBusy, go, reg, wr, cmd, wl, rag, sr, ls, vp, st, pb, ck, li, ns, dv>>

\* The handler has read the log and split it into lines.
DgCall ==
    /\ dg.pc = "idle"
    /\ \E lines \in SeqsUpTo(LogLines, MaxLines) \ {<<>>}, extract \in ExtractArgs :
            dg' = [DgIdle EXCEPT !.pc = "loop", !.lines = lines,
                                 !.extractStackTraces = extract]
    /\ UNCHANGED DgRest

\* One iteration of for (let i = 0; i < lines.length; i++); dg.i is the
\* 0-based i of the source.
DgLoopStep ==
    /\ dg.pc = "loop"
    /\ dg.i < Len(dg.lines)
    /\ LET line == dg.lines[dg.i + 1]
           starts == isException(line) /\ dg.extractStackTraces = "true"
           inStackTrace == IF starts THEN TRUE ELSE dg.inStackTrace
           currentStackTrace == IF starts THEN <<line>> ELSE dg.currentStackTrace
       IN
       IF inStackTrace /\ (isAtFrame(line) \/ isDotted(line))
       THEN dg' = [dg EXCEPT !.i = @ + 1, !.inStackTrace = inStackTrace,
                             !.currentStackTrace = Append(currentStackTrace, line)]
       ELSE IF inStackTrace /\ Len(currentStackTrace) > 0
       THEN dg' = [dg EXCEPT !.i = @ + 1, !.inStackTrace = FALSE,
                             !.currentStackTrace = <<>>,
                             !.stackTraces =
                                 Append(@, [startLine |-> dg.i - Len(currentStackTrace) + 1,
                                            trace |-> currentStackTrace])]
       ELSE dg' = [dg EXCEPT !.i = @ + 1, !.inStackTrace = inStackTrace,
                             !.currentStackTrace = currentStackTrace]
    /\ UNCHANGED DgRest

\* The loop is over: the analysis is returned as it stands.
DgReturn ==
    /\ dg.pc = "loop"
    /\ dg.i = Len(dg.lines)
    /\ dg' = [dg EXCEPT !.pc = "responded"]
    /\ UNCHANGED DgRest

DgDeliver ==
    /\ dg.pc = "responded"
    /\ dg' = DgIdle
    /\ UNCHANGED DgRest

LogsNext ==
    \/ DgCall
    \/ DgLoopStep
    \/ DgReturn
    \/ DgDeliver

SpecLogs == InitLogs /\ [][LogsNext]_vars

\* The number of frame lines directly behind line h (1-based).
RECURSIVE FramesAfter(_, _)
FramesAfter(lines, h) ==
    IF h < Len(lines) /\ isAtFrame(lines[h + 1]) THEN 1 + FramesAfter(lines, h + 1) ELSE 0

\* C20: with extraction on, every header line (containing 'Exception' or
\* 'Error:') followed by k >= 1 frame lines yields exactly one stackTraces entry
\* made of the header and all k frames, with startLine the header's 1-based
\* line number, also when the frames run to the end of the file.
C20_TraceHasHeaderAndFrames ==
    (dg.pc = "responded" /\ dg.extractStackTraces = "true") =>
        \A h \in 1..Len(dg.lines) :
            (isException(dg.lines[h]) /\ FramesAfter(dg.lines, h) >= 1) =>
                Cardinality({n \in 1..Len(dg.stackTraces) :
                    /\ dg.stackTraces[n].startLine = h
                    /\ dg.stackTraces[n].trace =
                         SubSeq(dg.lines, h, h + FramesAfter(dg.lines, h))}) = 1

\* C20 witness: a header followed by two frames and a plain line has been
\* analysed with extraction on, and an entry was recorded for it.
C20_HeaderWithFrames ==
    /\ dg.pc = "responded"
    /\ dg.extractStackTraces = "true"
    /\ dg.lines = <<HeaderLine, FrameLine, FrameLine, PlainLine>>
    /\ Len(dg.stackTraces) = 1

\* ---------------------------------------------------------------------------
\* list_directory: a directory tree under the workspace and the listing the
\* handler returns for it.  A path is the sequence of its segments, relative to
\* the workspace; <<>> is the workspace itself.
\* ---------------------------------------------------------------------------

MaxEntries == 4

EntryNames == {"a", "b"}

RecursiveArgs == {"true", "false", Undef}

\* fs.readdir(validPath, {withFileTypes: true}) with
\* entry.isDirectory() ? "directory" : "file"
readdir(tree, dir) ==
    {[name |-> <<n>>, type |-> "directory"] : n \in {m \in EntryNames : Append(dir, m) \in tree.dirs}}
    \cup {[name |-> <<n>>, type |-> "file"] : n \in {m \in EntryNames : Append(dir, m) \in tree.files}}

\* What the handler returns: the result only as JSON text inside content.
ToolResult(result) == [content |-> [type |-> "text", text |-> result]]

\* subItems.items of the value returned by the nested handler call
ItemsOf(subItems) == IF "items" \in DOMAIN subItems THEN subItems.items ELSE Undef

RECURSIVE listDirectoryHandler(_, _, _)
\* list_directory.handler for args = {path, recursive}
listDirectoryHandler(tree, argPath, recursive) ==
    LET items == readdir(tree, argPath)
        subdirs == {item \in items : item.type = "directory"}
        nested(subdir) ==
            LET subItems == listDirectoryHandler(tree, argPath \o subdir.name, "true")
            IN IF ItemsOf(subItems) # Undef
               THEN {[item EXCEPT !.name = subdir.name \o item.name] : item \in ItemsOf(subItems)}
               ELSE {}
    IN ToolResult([success |-> TRUE, path |-> argPath,
                   items |-> IF recursive = "true"
                             THEN items \cup UNION {nested(subdir) : subdir \in subdirs}
                             ELSE items])

LsIdle == [path |-> <<>>, recursive |-> Undef, resp |-> None]

InitList ==
    /\ ls = [pc |-> "idle", tree |-> [dirs |-> {<<>>}, files |-> {}], call |-> LsIdle]
    /\ fsReq = FsIdle
    /\ fsIO = <<>>
    /\ fsResp = Returned(None, None)
    /\ gw = None
    /\ ex = None
    /\ other = None
    /\ loopBusy = FALSE
    /\ go = None
    /\ reg = None
    /\ wr = None
    /\ cmd = None
    /\ wl = None
    /\ rag = None
    /\ sr = None
    /\ dg = None
    /\ vp = None
    /\ st = None
    /\ pb = None
    /\ ck = None
    /\ li = None
    /\ ns = None
    /\ dv = None

LsRest == <<fsReq, fsIO, fsResp, gw, ex, other, loopBusy, go, reg, wr, cmd, wl, rag, sr, dg, vp, st, pb, ck, li, ns, dv>>

\* A directory or a file is created in an existing directory.
LsCreate ==
    /\ ls.pc = "idle"
    /\ Cardinality(ls.tree.dirs) - 1 + Cardinality(ls.tree.files) < MaxEntries
    /\ \E dir \in ls.tree.dirs, n \in EntryNames, type \in {"directory", "file"} :
            /\ Append(dir, n) \notin ls.tree.dirs \cup ls.tree.files
            /\ ls' = [ls EXCEPT !.tree = IF type = "directory"
                                         THEN [@ EXCEPT !.dirs = @ \cup {Append(dir, n)}]
                                         ELSE [@ EXCEPT !.files = @ \cup {Append(dir, n)}]]
    /\ UNCHANGED LsRest

LsCall ==
    /\ ls.pc = "idle"
    /\ \E dir \in ls.tree.dirs, recursive \in RecursiveArgs :
            ls' = [ls EXCEPT !.pc = "called",
                             !.call = [LsIdle EXCEPT !.path = dir, !.recursive = recursive]]
    /\ UNCHANGED LsRest

LsHandler ==
    /\ ls.pc = "called"
    /\ ls' = [ls EXCEPT !.pc = "responded",
                        !.call.resp = listDirectoryHandler(ls.tree, ls.call.path,
                                                           ls.call.recursive)]
    /\ UNCHANGED LsRest

LsDeliver ==
    /\ ls.pc = "responded"
    /\ ls' = [ls EXCEPT !.pc = "idle", !.call = LsIdle]
    /\ UNCHANGED LsRest

ListNext ==
    \/ LsCreate
    \/ LsCall
    \/ LsHandler
    \/ LsDeliver

SpecList == InitList /\ [][ListNext]_vars

IsPrefix(p, q) == Len(p) <= Len(q) /\ SubSeq(q, 1, Len(p)) = p

\* The paths, relative to dir, of everything below dir at any depth.
Below(tree, dir) ==
    {SubSeq(q, Len(dir) + 1, Len(q)) :
        q \in {e \in (tree.dirs \cup tree.files) : IsPrefix(dir, e) /\ e # dir}}

\* C21: list_directory with recursive=true returns the entries of the requested
\* directory and of every directory nested below it at any depth, each named by
\* its path relative to the requested directory.
C21_RecursiveListsEveryDepth ==
    (ls.pc = "responded" /\ ls.call.recursive = "true") =>
        {item.name : item \in ls.call.resp.content.text.items} = Below(ls.tree, ls.call.path)

\* C21 witness: a recursive listing has answered for a directory with an entry
\* two levels down, and the entries of the directory itself are in the answer.
C21_NestedTreeListed ==
    /\ ls.pc = "responded"
    /\ ls.call.recursive = "true"
    /\ \E q \in Below(ls.tree, ls.call.path) : Len(q) = 3
    /\ \A q \in Below(ls.tree, ls.call.path) :
            Len(q) = 1 => q \in {item.name : item \in ls.call.resp.content.text.items}

\* C22: no tool removes a file as part of its own logic: a file that existed
\* before a tool call (here .rag-index/index.json, the one file the RAG tools
\* own) still exists when the call has answered; its content may have changed.
C22_NoToolRemovesAFile ==
    (rag.pc = "responded" /\ rag.call.beforeDisk # <<>>) => rag.disk # <<>>

\* C22 witness: rag_index_documents has answered with index.json present before
\* and after, its content replaced.
C22_IndexRewrittenInPlace ==
    /\ rag.pc = "responded"
    /\ rag.call.tool = "rag_index_documents"
    /\ rag.call.resp.success
    /\ rag.call.beforeDisk # <<>>
    /\ rag.disk # <<>>
    /\ rag.disk # rag.call.beforeDisk

\* ---------------------------------------------------------------------------
\* validate_project: the project found in the workspace, the checks run on it
\* and the results returned.
\* ---------------------------------------------------------------------------

\* hasPackageJson, else hasCargoToml, else hasSetupPy, else none of them
ProjectTypes == {"node", "rust", "python", "none"}

\* The checks of each branch, in the order of the source.
CheckSequence(project) ==
    CASE project = "node" -> <<"lint", "type-check", "test", "build">>
      [] project = "rust" -> <<"format", "clippy", "test", "build">>
      [] project = "python" -> <<"lint", "type-check", "test">>
      [] OTHER -> <<>>

\* package.json: which of scripts.lint (or lint:check), scripts.type-check (or
\* devDependencies.typescript), scripts.test, scripts.build it has.
PackageJsons == [lint : BOOLEAN, typeCheck : BOOLEAN, test : BOOLEAN, build : BOOLEAN]

ValidateArgs == [skipTests : BOOLEAN, skipBuild : BOOLEAN, fix : BOOLEAN]

\* The condition under which a check of the sequence is executed.
Executes(project, step, pkg, args) ==
    CASE project = "node" /\ step = "lint" -> pkg.lint
      [] project = "node" /\ step = "type-check" -> pkg.typeCheck
      [] project = "node" /\ step = "test" -> ~args.skipTests /\ pkg.test
      [] project = "node" /\ step = "build" -> ~args.skipBuild /\ pkg.build
      [] step = "test" -> ~args.skipTests
      [] step = "build" -> ~args.skipBuild
      [] OTHER -> TRUE

\* results.steps.push({step, success: false, ...}) in the catch of a check
RecordsFailedStep(project) == project = "node"

\* results.success = false in the catch of a check
SetsSuccessFalse(project, step) ==
    ~(project = "python" /\ step \in {"lint", "type-check"})

VpResults == [success |-> TRUE, steps |-> <<>>, errors |-> <<>>]

VpIdle ==
    [pc |-> "idle", project |-> "none", pkg |-> [lint |-> FALSE, typeCheck |-> FALSE,
                                                 test |-> FALSE, build |-> FALSE],
     args |-> [skipTests |-> FALSE, skipBuild |-> FALSE, fix |-> FALSE],
     i |-> 1, passes |-> 0, results |-> VpResults]

InitValidate ==
    /\ vp = VpIdle
    /\ fsReq = FsIdle
    /\ fsIO = <<>>
    /\ fsResp = Returned(None, None)
    /\ gw = None
    /\ ex = None
    /\ other = None
    /\ loopBusy = FALSE
    /\ go = None
    /\ reg = None
    /\ wr = None
    /\ cmd = None
    /\ wl = None
    /\ rag = None
    /\ sr = None
    /\ dg = None
    /\ ls = None
    /\ st = None
    /\ pb = None
    /\ ck = None
    /\ li = None
    /\ ns = None
    /\ dv = None

VpRest == <<fsReq, fsIO, fsResp, gw, ex, other, loopBusy, go, reg, wr, cmd, wl, rag, sr, dg, ls, st, pb, ck, li, ns, dv>>

\* The handler starts: results initialised, project type detected.
VpCall ==
    /\ vp.pc = "idle"
    /\ \E project \in ProjectTypes, args \in ValidateArgs :
       \E pkg \in (IF project = "node" THEN PackageJsons ELSE {VpIdle.pkg}) :
            vp' = [VpIdle EXCEPT !.pc = "checks", !.project = project, !.pkg = pkg,
                                 !.args = args, !.passes = 1]
    /\ UNCHANGED VpRest

\* JSON.parse of package.json throws: the outer catch ends the validation.
VpParseFails ==
    /\ vp.pc = "checks"
    /\ vp.project = "node"
    /\ vp.i = 1
    /\ vp' = [vp EXCEPT !.pc = "return", !.results.success = FALSE,
                        !.results.errors = Append(@, "Validation error")]
    /\ UNCHANGED VpRest

\* The next check of the sequence is skipped, passes or fails.
VpCheck ==
    /\ vp.pc = "checks"
    /\ vp.i <= Len(CheckSequence(vp.project))
    /\ LET step == CheckSequence(vp.project)[vp.i] IN
       /\ ~(vp.project = "rust" /\ step = "format")
       /\ IF ~Executes(vp.project, step, vp.pkg, vp.args)
          THEN vp' = [vp EXCEPT !.i = @ + 1]
          ELSE \E passed \in BOOLEAN :
                IF passed
                THEN vp' = [vp EXCEPT !.i = @ + 1,
                                      !.results.steps = Append(@, [step |-> step, success |-> TRUE])]
                ELSE vp' = [vp EXCEPT !.i = @ + 1,
                                      !.results.success =
                                          IF SetsSuccessFalse(vp.project, step) THEN FALSE ELSE @,
                                      !.results.errors = Append(@, step),
                                      !.results.steps =
                                          IF RecordsFailedStep(vp.project)
                                          THEN Append(@, [step |-> step, success |-> FALSE])
                                          ELSE @]
    /\ UNCHANGED VpRest

\* cargo fmt -- --check; when it fails and fix is set, cargo fmt, whose failure
\* reaches the outer catch.
VpRustFormat ==
    /\ vp.pc = "checks"
    /\ vp.project = "rust"
    /\ vp.i = 1
    /\ \E outcome \in {"clean", "fixed", "fixFailed"} :
        CASE outcome = "clean" \/ (outcome = "fixed" /\ vp.args.fix) ->
                vp' = [vp EXCEPT !.i = 2,
                                 !.results.steps = Append(@, [step |-> "format", success |-> TRUE])]
          [] outcome = "fixFailed" /\ vp.args.fix ->
                vp' = [vp EXCEPT !.pc = "return", !.results.success = FALSE,
                                 !.results.errors = Append(@, "Validation error")]
          [] OTHER ->
                vp' = [vp EXCEPT !.i = 2, !.results.success = FALSE,
                                 !.results.errors = Append(@, "format")]
    /\ UNCHANGED VpRest

\* The sequence is over: there is no second pass.
VpChecksDone ==
    /\ vp.pc = "checks"
    /\ vp.i > Len(CheckSequence(vp.project))
    /\ vp' = [vp EXCEPT !.pc = "return"]
    /\ UNCHANGED VpRest

\* return formatToolResponse(results)
VpReturn ==
    /\ vp.pc = "return"
    /\ vp' = [vp EXCEPT !.pc = "responded"]
    /\ UNCHANGED VpRest

VpDeliver ==
    /\ vp.pc = "responded"
    /\ vp' = VpIdle
    /\ UNCHANGED VpRest

ValidateNext ==
    \/ VpCall
    \/ VpParseFails
    \/ VpCheck
    \/ VpRustFormat
    \/ VpChecksDone
    \/ VpReturn
    \/ VpDeliver

SpecValidate == InitValidate /\ [][ValidateNext]_vars

\* C23: validate_project iterates: after a pass in which some check failed it
\* runs the checks again, and it reports success=true only after a pass in
\* which all executed checks passed.
C23_IteratesUntilChecksPass ==
    vp.pc = "responded" =>
        /\ vp.results.errors # <<>> => vp.passes >= 2
        /\ vp.results.success => vp.results.errors = <<>>

\* C23 witness: a Node.js project whose four checks were executed and passed in
\* the one pass made is reported with success=true.
C23_CleanPassSucceeds ==
    /\ vp.pc = "responded"
    /\ vp.project = "node"
    /\ Len(vp.results.steps) = 4
    /\ vp.results.errors = <<>>
    /\ vp.results.success
    /\ vp.passes = 1

\* C25: validate_project returns success=true if and only if its errors list
\* is empty, for Node.js, Rust and Python projects and every combination of
\* failing steps.
C25_SuccessIffNoErrors ==
    vp.pc = "responded" => (vp.results.success <=> vp.results.errors = <<>>)

\* C25 witness: a Rust project whose clippy and build failed is reported with
\* success=false and both errors.
C25_RustFailuresReported ==
    /\ vp.pc = "responded"
    /\ vp.project = "rust"
    /\ vp.results.errors = <<"clippy", "build">>
    /\ ~vp.results.success

\* ---------------------------------------------------------------------------
\* Startup of the main server (index.ts): the registration loop at the top
\* level of the module, main(), and what the process writes.
\* ---------------------------------------------------------------------------

MaxRequests == 2

RunningLine == "MCP Vibe Coding Tools server running on stdio"

consoleLog(io, line) == [io EXCEPT !.stdout = Append(@, line)]

\* console.error(line)
consoleError(io, line) == [io EXCEPT !.stderr = Append(@, line)]

StLoading ==
    [pc |-> "load", tools |-> <<>>, i |-> 1, registry |-> <<>>, connected |-> FALSE,
     registeredAtConnect |-> 0, stdout |-> <<>>, stderr |-> <<>>, exitCode |-> <<>>,
     inbox |-> 0]

InitStartup ==
    /\ st = StLoading
    /\ fsReq = FsIdle
    /\ fsIO = <<>>
    /\ fsResp = Returned(None, None)
    /\ gw = None
    /\ ex = None
    /\ other = None
    /\ loopBusy = FALSE
    /\ go = None
    /\ reg = None
    /\ wr = None
    /\ cmd = None
    /\ wl = None
    /\ rag = None
    /\ sr = None
    /\ dg = None
    /\ ls = None
    /\ vp = None
    /\ pb = None
    /\ ck = None
    /\ li = None
    /\ ns = None
    /\ dv = None

StRest ==
    <<fsReq, fsIO, fsResp, gw, ex, other, loopBusy, go, reg, wr, cmd, wl, rag, sr, dg, ls, vp, pb, ck, li, ns, dv>>

\* The client writes a request to the server's stdin; it waits in the pipe
\* until the transport reads it.
StClientSends ==
    /\ st.exitCode = <<>>
    /\ st.inbox < MaxRequests
    /\ st' = [st EXCEPT !.inbox = @ + 1]
    /\ UNCHANGED StRest

\* The imports are evaluated and allTools is built.
StImport ==
    /\ st.pc = "load"
    /\ st' = [st EXCEPT !.pc = "registering", !.tools = allTools("vibe")]
    /\ UNCHANGED StRest

StRegisterEach ==
    /\ st.pc = "registering"
    /\ st.i <= Len(st.tools)
    /\ st' = RegistrationStep(st)
    /\ UNCHANGED StRest

\* main(): new StdioServerTransport(); await server.connect(transport)
StMain ==
    /\ st.pc = "registering"
    /\ st.i > Len(st.tools)
    /\ st' = [st EXCEPT !.pc = "connecting"]
    /\ UNCHANGED StRest

\* connect resolves; the line after the await is run.
StConnected ==
    /\ st.pc = "connecting"
    /\ st' = [consoleError(st, RunningLine) EXCEPT
                  !.pc = "running", !.connected = TRUE,
                  !.registeredAtConnect = Len(st.registry)]
    /\ UNCHANGED StRest

\* connect rejects: main().catch logs the error and exits.
StConnectFails ==
    /\ st.pc = "connecting"
    /\ st' = [consoleError(st, "Fatal error:") EXCEPT !.pc = "exited", !.exitCode = <<1>>]
    /\ UNCHANGED StRest

\* The transport reads a request and writes its response to stdout.
StServe ==
    /\ st.pc = "running"
    /\ st.inbox > 0
    /\ Len(st.stdout) < MaxRequests
    /\ st' = [st EXCEPT !.inbox = @ - 1, !.stdout = Append(@, "jsonrpc")]
    /\ UNCHANGED StRest

StartupNext ==
    \/ StClientSends
    \/ StImport
    \/ StRegisterEach
    \/ StMain
    \/ StConnected
    \/ StConnectFails
    \/ StServe

SpecStartup == InitStartup /\ [][StartupNext]_vars

ProblemFiles == {"s", "a/s", "b"}

\* severity: "error" from tsc, "error" or "warning" from eslint
ProblemPool == [file : ProblemFiles, severity : {"error", "warning"}]

Chars(str) ==
    CASE str = "s" -> <<"s">>
      [] str = "a/s" -> <<"a", "/", "s">>
      [] str = "b" -> <<"b">>
      [] OTHER -> <<>>

\* str.includes(sub)
includes(str, sub) ==
    \E i \in 0..(Len(Chars(str)) - Len(Chars(sub))) :
        SubSeq(Chars(str), i + 1, i + Len(Chars(sub))) = Chars(sub)

\* The two filters of the handler, on the arguments it receives.
filterProblems(problems, args) ==
    LET byFile == IF args.filePath # Undef
                  THEN {q \in problems : includes(q.file, args.filePath)}
                  ELSE problems
    IN IF args.severity # "all"
       THEN {q \in byFile : q.severity = args.severity}
       ELSE byFile

PbIdle ==
    [pc |-> "idle", problems |-> {}, raw |-> [filePath |-> Undef, severity |-> Undef],
     args |-> [filePath |-> Undef, severity |-> Undef], resp |-> {}]

InitProblems ==
    /\ pb = PbIdle
    /\ fsReq = FsIdle
    /\ fsIO = <<>>
    /\ fsResp = Returned(None, None)
    /\ gw = None
    /\ ex = None
    /\ other = None
    /\ loopBusy = FALSE
    /\ go = None
    /\ reg = None
    /\ wr = None
    /\ cmd = None
    /\ wl = None
    /\ rag = None
    /\ sr = None
    /\ dg = None
    /\ ls = None
    /\ vp = None
    /\ st = None
    /\ ck = None
    /\ li = None
    /\ ns = None
    /\ dv = None

PbRest ==
    <<fsReq, fsIO, fsResp, gw, ex, other, loopBusy, go, reg, wr, cmd, wl, rag, sr, dg, ls, vp, st, ck, li, ns, dv>>

\* A call passes validation: the handler gets the parsed arguments and collects
\* the problems of the workspace.
PbCall ==
    /\ pb.pc = "idle"
    /\ \E problems \in SUBSET ProblemPool :
       \E filePath \in {Undef, "s"}, severity \in SeverityEnum \cup {Undef} :
            LET raw == [filePath |-> filePath, severity |-> severity]
                parsed == ZodParse("get_vscode_problems", raw)
            IN /\ parsed.ok
               /\ pb' = [PbIdle EXCEPT !.pc = "called", !.problems = problems, !.raw = raw,
                                       !.args = parsed.data]
    /\ UNCHANGED PbRest

PbHandler ==
    /\ pb.pc = "called"
    /\ pb' = [pb EXCEPT !.pc = "responded", !.resp = filterProblems(pb.problems, pb.args)]
    /\ UNCHANGED PbRest

PbDeliver ==
    /\ pb.pc = "responded"
    /\ pb' = PbIdle
    /\ UNCHANGED PbRest

ProblemsNext ==
    \/ PbCall
    \/ PbHandler
    \/ PbDeliver

SpecProblems == InitProblems /\ [][ProblemsNext]_vars

\* The collected problems that pass the optional filePath filter.
PbOfFile ==
    IF pb.raw.filePath # Undef
    THEN {q \in pb.problems : includes(q.file, pb.raw.filePath)}
    ELSE pb.problems

\* C27: get_vscode_problems without a severity argument returns every collected
\* problem (after the optional filePath filter), as severity='all' does; the
\* severity filter removes problems only when a concrete severity other than
\* 'all' is supplied.
C27_NoSeverityMeansAll ==
    pb.pc = "responded" =>
        IF pb.raw.severity \in {Undef, "all"}
        THEN pb.resp = PbOfFile
        ELSE pb.resp = {q \in PbOfFile : q.severity = pb.raw.severity}

\* C27 witness: severity 'all' with a filePath has answered with the problems
\* of the matching files, errors and warnings alike.
C27_AllReturnsEverything ==
    /\ pb.pc = "responded"
    /\ pb.raw = [filePath |-> "s", severity |-> "all"]
    /\ pb.problems = ProblemPool
    /\ pb.resp = {q \in ProblemPool : q.file \in {"s", "a/s"}}

\* ---------------------------------------------------------------------------
\* chunkText, line by line.  A line is represented by its length; two lines of
\* the same length are the same text.
\* ---------------------------------------------------------------------------

MaxSourceLines == 5

\* const CHUNK_SIZE = 1000
CHUNK_SIZE == 1000

\* const CHUNK_OVERLAP = 200
CHUNK_OVERLAP == 200

LineLengths == {0, 400, 1200}

RECURSIVE SumSeq(_)
SumSeq(q) == IF q = <<>> THEN 0 ELSE Head(q) + SumSeq(Tail(q))

\* currentChunk.join("\n").length
joinedLength(chunk) == IF chunk = <<>> THEN 0 ELSE SumSeq(chunk) + Len(chunk) - 1

\* Math.ceil(overlap / (currentSize / currentChunk.length)); Infinity when
\* currentSize is 0, which Math.min then cuts to the chunk's length.
overlapLines(overlap, currentSize, n) ==
    IF currentSize = 0 THEN n ELSE (overlap * n + currentSize - 1) \div currentSize

\* currentChunk.slice(-keepLines); slice(-0) is the whole array.
sliceLast(chunk, keepLines) ==
    IF keepLines = 0 THEN chunk ELSE SubSeq(chunk, Len(chunk) - keepLines + 1, Len(chunk))

\* Math.min
Min(a, b) == IF a <= b THEN a ELSE b

makeChunk(acc) ==
    [content |-> acc.currentChunk, startLine |-> acc.startLine,
     endLine |-> acc.startLine + Len(acc.currentChunk) - 1,
     chunkIndex |-> acc.chunkIndex, totalChunks |-> 0]

RECURSIVE chunkLoop(_, _, _, _, _)
\* for (let i = 0; i < lines.length; i++) { ... } and the last chunk; i is the
\* 1-based number of the line handled next.
chunkLoop(lines, chunkSize, overlap, i, acc) ==
    IF i > Len(lines)
    THEN IF Len(acc.currentChunk) > 0 THEN Append(acc.chunks, makeChunk(acc)) ELSE acc.chunks
    ELSE LET lineSize == lines[i] + 1
             saved ==
                IF acc.currentSize + lineSize > chunkSize /\ Len(acc.currentChunk) > 0
                THEN LET keepLines == Min(overlapLines(overlap, acc.currentSize,
                                                       Len(acc.currentChunk)),
                                          Len(acc.currentChunk))
                         kept == sliceLast(acc.currentChunk, keepLines)
                     IN [acc EXCEPT !.chunks = Append(@, makeChunk(acc)),
                                    !.currentChunk = kept,
                                    !.currentSize = joinedLength(kept),
                                    !.startLine = @ + Len(kept) - keepLines,
                                    !.chunkIndex = @ + 1]
                ELSE acc
         IN chunkLoop(lines, chunkSize, overlap, i + 1,
                      [saved EXCEPT !.currentChunk = Append(@, lines[i]),
                                    !.currentSize = @ + lineSize])

\* chunkText(content, filePath) on content.split("\n"), with the defaults.
chunkTextLines(lines) ==
    LET chunks == chunkLoop(lines, CHUNK_SIZE, CHUNK_OVERLAP, 1,
                            [currentChunk |-> <<>>, currentSize |-> 0, startLine |-> 1,
                             chunkIndex |-> 0, chunks |-> <<>>])
    IN [n \in 1..Len(chunks) |-> [chunks[n] EXCEPT !.totalChunks = Len(chunks)]]

InitChunk ==
    /\ ck = [pc |-> "idle", lines |-> <<>>, chunks |-> <<>>]
    /\ fsReq = FsIdle
    /\ fsIO = <<>>
    /\ fsResp = Returned(None, None)
    /\ gw = None
    /\ ex = None
    /\ other = None
    /\ loopBusy = FALSE
    /\ go = None
    /\ reg = None
    /\ wr = None
    /\ cmd = None
    /\ wl = None
    /\ rag = None
    /\ sr = None
    /\ dg = None
    /\ ls = None
    /\ vp = None
    /\ st = None
    /\ pb = None
    /\ li = None
    /\ ns = None
    /\ dv = None

CkRest ==
    <<fsReq, fsIO, fsResp, gw, ex, other, loopBusy, go, reg, wr, cmd, wl, rag, sr, dg, ls, vp, st, pb, li, ns, dv>>

\* rag_index_documents has read a file: content.split("\n") has at least one line.
CkRead ==
    /\ ck.pc = "idle"
    /\ \E lines \in SeqsUpTo(LineLengths, MaxSourceLines) \ {<<>>} :
            ck' = [ck EXCEPT !.pc = "read", !.lines = lines]
    /\ UNCHANGED CkRest

CkChunk ==
    /\ ck.pc = "read"
    /\ ck' = [ck EXCEPT !.pc = "chunked", !.chunks = chunkTextLines(ck.lines)]
    /\ UNCHANGED CkRest

CkNextFile ==
    /\ ck.pc = "chunked"
    /\ ck' = [pc |-> "idle", lines |-> <<>>, chunks |-> <<>>]
    /\ UNCHANGED CkRest

ChunkNext ==
    \/ CkRead
    \/ CkChunk
    \/ CkNextFile

SpecChunk == InitChunk /\ [][ChunkNext]_vars

\* C26: every chunk's content is lines startLine..endLine (1-based, inclusive)
\* of the source; the chunks have chunkIndex 0..n-1 and totalChunks = n; every
\* line of the source appears in at least one chunk.
C26_ChunksAreTheirLineRanges ==
    ck.pc = "chunked" =>
        /\ \A n \in 1..Len(ck.chunks) :
                /\ ck.chunks[n].startLine >= 1
                /\ ck.chunks[n].endLine <= Len(ck.lines)
                /\ ck.chunks[n].content =
                        SubSeq(ck.lines, ck.chunks[n].startLine, ck.chunks[n].endLine)
                /\ ck.chunks[n].chunkIndex = n - 1
                /\ ck.chunks[n].totalChunks = Len(ck.chunks)
        /\ \A i \in 1..Len(ck.lines) :
                \E n \in 1..Len(ck.chunks) : ck.lines[i] \in Range(ck.chunks[n].content)

\* C26 witness: a text of three chunks, numbered 0..2 with totalChunks 3, whose
\* first chunk is lines 1..2 of the source.
C26_ThreeChunksNumbered ==
    /\ ck.pc = "chunked"
    /\ Len(ck.chunks) = 3
    /\ \A n \in 1..3 : ck.chunks[n].chunkIndex = n - 1 /\ ck.chunks[n].totalChunks = 3
    /\ ck.chunks[1].startLine = 1
    /\ ck.chunks[1].endLine = 2
    /\ ck.chunks[1].content = SubSeq(ck.lines, 1, 2)

\* ---------------------------------------------------------------------------
\* loadIndex on whatever index.json holds.
\* ---------------------------------------------------------------------------

MaxLoads == 4

\* index.json: missing, unreadable, not JSON, the JSON null, a JSON object
\* without a chunks array, or one of two indexes written by saveIndex.
IndexFiles == {"missing", "unreadable", "notJson", "jsonNull", "noChunks", "indexA", "indexB"}

Null == "null"

\* fs.readFile(indexPath, "utf8") succeeds
readable(file) == file \notin {"missing", "unreadable"}

\* JSON.parse(data) returns
parses(file) == file # "notJson"

\* JSON.parse(data)
parsed(file) == IF file = "jsonNull" THEN Null ELSE file

\* for (const chunk of indexCache.chunks) runs without a TypeError
iterableChunks(value) == value \in {"indexA", "indexB"}

\* loadIndex(): the value returned and indexCache afterwards
loadIndexFile(cache, file) ==
    IF cache # Null THEN [result |-> cache, cache |-> cache]
    ELSE IF ~readable(file) \/ ~parses(file) THEN [result |-> Null, cache |-> cache]
    ELSE LET assigned == parsed(file) IN
         IF assigned = Null THEN [result |-> Null, cache |-> Null]
         ELSE IF ~iterableChunks(assigned) THEN [result |-> Null, cache |-> assigned]
         ELSE [result |-> assigned, cache |-> assigned]

InitLoad ==
    /\ li = [file |-> "missing", cache |-> Null, results |-> <<>>, restarts |-> 0]
    /\ fsReq = FsIdle
    /\ fsIO = <<>>
    /\ fsResp = Returned(None, None)
    /\ gw = None
    /\ ex = None
    /\ other = None
    /\ loopBusy = FALSE
    /\ go = None
    /\ reg = None
    /\ wr = None
    /\ cmd = None
    /\ wl = None
    /\ rag = None
    /\ sr = None
    /\ dg = None
    /\ ls = None
    /\ vp = None
    /\ st = None
    /\ pb = None
    /\ ck = None
    /\ ns = None
    /\ dv = None

LiRest ==
    <<fsReq, fsIO, fsResp, gw, ex, other, loopBusy, go, reg, wr, cmd, wl, rag, sr, dg, ls, vp, st, pb, ck, ns, dv>>

\* index.json is written, damaged or removed while no server holds it cached:
\* the server process starts afresh on it.
LiServerStartsOn ==
    /\ li.restarts < MaxLoads
    /\ \E file \in IndexFiles \ {li.file} :
            li' = [file |-> file, cache |-> Null, results |-> <<>>,
                   restarts |-> li.restarts + 1]
    /\ UNCHANGED LiRest

\* A handler calls loadIndex().
LiLoad ==
    /\ Len(li.results) < MaxLoads
    /\ LET r == loadIndexFile(li.cache, li.file) IN
       li' = [li EXCEPT !.cache = r.cache, !.results = Append(@, r.result)]
    /\ UNCHANGED LiRest

LoadNext ==
    \/ LiServerStartsOn
    \/ LiLoad

SpecLoad == InitLoad /\ [][LoadNext]_vars

\* C28: a failed loadIndex (file missing, unreadable, or with content that
\* cannot be turned into a usable index) returns null and leaves indexCache
\* null, so consecutive loadIndex calls with no write in between return the
\* same result.
C28_FailedLoadLeavesCacheNull ==
    /\ (li.file \notin {"indexA", "indexB"} /\ li.results # <<>>) =>
            /\ \A k \in 1..Len(li.results) : li.results[k] = Null
            /\ li.cache = Null
    /\ \A k \in 1..(Len(li.results) - 1) : li.results[k] = li.results[k + 1]

\* C28 witness: two consecutive loads of an index.json that is not JSON both
\* returned null and indexCache is null.
C28_NotJsonLoadedTwice ==
    /\ li.file = "notJson"
    /\ li.results = <<Null, Null>>
    /\ li.cache = Null

\* ---------------------------------------------------------------------------
\* The npm scripts written by create_validation_script and what `npm run` does
\* with them.  A script is the sequence of the commands joined by &&.
\* ---------------------------------------------------------------------------

MaxDepth == 4

Npm(script) == [kind |-> "npm", script |-> script]

Leaf(command) == [kind |-> "leaf", script |-> command]

\* scripts.test and scripts.build of the package.json found: absent or a command
ExistingScripts == [test : {Undef, "mocha"}, build : {Undef, "webpack"}]

ScriptArgs == [includeCoverage : BOOLEAN, includePrecommit : BOOLEAN]

ScriptNames(args) ==
    {"validate", "lint", "lint:check", "type-check", "test", "test:watch", "test:coverage",
     "build", "prebuild"}
    \cup (IF args.includePrecommit THEN {"precommit", "prepush"} ELSE {})

\* packageJson.scripts after Object.assign and the includePrecommit block
scriptsWritten(existing, args) ==
    [n \in ScriptNames(args) |->
        CASE n = "validate" ->
                <<Npm("lint:check"), Npm("type-check"), Npm("test"), Npm("build")>>
          [] n = "lint" -> <<Leaf("eslint . --fix")>>
          [] n = "lint:check" -> <<Leaf("eslint .")>>
          [] n = "type-check" -> <<Leaf("tsc --noEmit")>>
          [] n = "test" -> <<Leaf(IF existing.test # Undef THEN existing.test ELSE "jest")>>
          [] n = "test:watch" -> <<Leaf("jest --watch")>>
          [] n = "test:coverage" ->
                <<Leaf(IF args.includeCoverage THEN "jest --coverage --coverageThreshold"
                       ELSE "jest --coverage")>>
          [] n = "build" -> <<Leaf(IF existing.build # Undef THEN existing.build ELSE "tsc")>>
          [] OTHER -> <<Npm("validate")>>]

\* npm run X: preX, X, postX, those that are defined, in this order
phasesOf(scripts, x) ==
    SelectSeq(<<"pre" \o x, x, "post" \o x>>, LAMBDA n : n \in DOMAIN scripts)

NsFrame(scripts, x) ==
    LET phases == phasesOf(scripts, x) IN
    [script |-> x, phases |-> Tail(phases), cmds |-> scripts[Head(phases)]]

NsIdle == [pc |-> "idle", scripts |-> <<>>, entry |-> None, stack |-> <<>>, leaves |-> 0]

InitScripts ==
    /\ ns = NsIdle
    /\ fsReq = FsIdle
    /\ fsIO = <<>>
    /\ fsResp = Returned(None, None)
    /\ gw = None
    /\ ex = None
    /\ other = None
    /\ loopBusy = FALSE
    /\ go = None
    /\ reg = None
    /\ wr = None
    /\ cmd = None
    /\ wl = None
    /\ rag = None
    /\ sr = None
    /\ dg = None
    /\ ls = None
    /\ vp = None
    /\ st = None
    /\ pb = None
    /\ ck = None
    /\ li = None
    /\ dv = None

NsRest ==
    <<fsReq, fsIO, fsResp, gw, ex, other, loopBusy, go, reg, wr, cmd, wl, rag, sr, dg, ls, vp, st, pb, ck, li, dv>>

\* create_validation_script.handler writes package.json.
NsCreateScripts ==
    /\ ns.pc = "idle"
    /\ \E existing \in ExistingScripts, args \in ScriptArgs :
            ns' = [NsIdle EXCEPT !.pc = "written", !.scripts = scriptsWritten(existing, args)]
    /\ UNCHANGED NsRest

\* The user runs `npm run validate` or `npm run build`.
NsNpmRun ==
    /\ ns.pc = "written"
    /\ \E entry \in {"validate", "build"} :
            ns' = [ns EXCEPT !.pc = "running", !.entry = entry,
                             !.stack = <<NsFrame(ns.scripts, entry)>>]
    /\ UNCHANGED NsRest

NsTop == ns.stack[Len(ns.stack)]

NsBelow == SubSeq(ns.stack, 1, Len(ns.stack) - 1)

\* The lint, type-check, test or compile command at hand terminates, with exit
\* code 0 or not; a failure ends the whole && chain up to the top.
NsLeafExits ==
    /\ ns.pc = "running"
    /\ ns.stack # <<>>
    /\ NsTop.cmds # <<>>
    /\ Head(NsTop.cmds).kind = "leaf"
    /\ \E ok \in BOOLEAN :
        IF ok
        THEN ns' = [ns EXCEPT !.stack[Len(ns.stack)].cmds = Tail(@), !.leaves = 1]
        ELSE ns' = [ns EXCEPT !.pc = "failed", !.stack = <<>>]
    /\ UNCHANGED NsRest

\* The command at hand is `npm run X` (or `npm test`): a nested npm starts.
NsNestedRun ==
    /\ ns.pc = "running"
    /\ ns.stack # <<>>
    /\ Len(ns.stack) < MaxDepth
    /\ NsTop.cmds # <<>>
    /\ Head(NsTop.cmds).kind = "npm"
    /\ ns' = [ns EXCEPT !.stack = Append(@, NsFrame(ns.scripts, Head(NsTop.cmds).script))]
    /\ UNCHANGED NsRest

\* A script has run to its end: the next phase of the run starts, or the run
\* returns 0 to the command that started it.
NsScriptEnds ==
    /\ ns.pc = "running"
    /\ ns.stack # <<>>
    /\ NsTop.cmds = <<>>
    /\ IF NsTop.phases # <<>>
       THEN ns' = [ns EXCEPT !.stack[Len(ns.stack)] =
                        [@ EXCEPT !.phases = Tail(@), !.cmds = ns.scripts[Head(NsTop.phases)]]]
       ELSE IF Len(ns.stack) = 1
       THEN ns' = [ns EXCEPT !.pc = "passed", !.stack = <<>>]
       ELSE ns' = [ns EXCEPT !.stack =
                        [NsBelow EXCEPT ![Len(NsBelow)].cmds = Tail(@)]]
    /\ UNCHANGED NsRest

NsAgain ==
    /\ ns.pc \in {"passed", "failed"}
    /\ ns' = NsIdle
    /\ UNCHANGED NsRest

ScriptsNext ==
    \/ NsCreateScripts
    \/ NsNpmRun
    \/ NsLeafExits
    \/ NsNestedRun
    \/ NsScriptEnds
    \/ NsAgain

SpecScripts == InitScripts /\ [][ScriptsNext]_vars

\* C29: the script set written by create_validation_script has no cyclic
\* invocation under npm's pre-hook rule: no script is started while a run of it
\* is still in progress, so `npm run validate` and `npm run build` terminate
\* when the underlying commands do.
C29_NoCyclicInvocation ==
    \A a, b \in 1..Len(ns.stack) : ns.stack[a].script = ns.stack[b].script => a = b

\* C29 witness: `npm run validate` has ended with a failure because one of the
\* underlying commands exited non-zero after another had passed.
C29_FailingCheckEndsRun ==
    /\ ns.pc = "failed"
    /\ ns.entry = "validate"
    /\ ns.leaves = 1
    /\ ns.stack = <<>>

\* ---------------------------------------------------------------------------
\* start_dev_server: the call, the child processes it has spawned and their
\* lifetimes.
\* ---------------------------------------------------------------------------

MaxChildren == 3

DevArgs == [command : {Undef, "vite"}, background : {"true", "false", Undef}]

\* const command = args.command || "npm run dev"
devCommand(args) == IF args.command # Undef THEN args.command ELSE "npm run dev"

inBackgroundAlways(args) == TRUE

\* if (args.background)
inBackground(args) == args.background = "true"

\* spawn(command, [], {cwd: workspacePath, shell: true, detached: true, stdio: "ignore"})
spawnChild(children, command) ==
    Append(children, [pid |-> 100 + Len(children) + 1, command |-> command, state |-> "running",
                      detached |-> TRUE, cwd |-> workspacePath])

DvIdle ==
    [command |-> Undef, background |-> Undef]

DvNoResponse == [success |-> FALSE, pid |-> <<>>, command |-> Undef]

InitDev ==
    /\ dv = [pc |-> "idle", args |-> DvIdle, children |-> <<>>, before |-> 0,
             resp |-> DvNoResponse]
    /\ fsReq = FsIdle
    /\ fsIO = <<>>
    /\ fsResp = Returned(None, None)
    /\ gw = None
    /\ ex = None
    /\ other = None
    /\ loopBusy = FALSE
    /\ go = None
    /\ reg = None
    /\ wr = None
    /\ cmd = None
    /\ wl = None
    /\ rag = None
    /\ sr = None
    /\ dg = None
    /\ ls = None
    /\ vp = None
    /\ st = None
    /\ pb = None
    /\ ck = None
    /\ li = None
    /\ ns = None

DvRest ==
    <<fsReq, fsIO, fsResp, gw, ex, other, loopBusy, go, reg, wr, cmd, wl, rag, sr, dg, ls, vp,
      st, pb, ck, li, ns>>

DvCall ==
    /\ dv.pc = "idle"
    /\ Len(dv.children) < MaxChildren
    /\ \E args \in DevArgs :
            dv' = [dv EXCEPT !.pc = "called", !.args = args, !.before = Len(dv.children),
                             !.resp = DvNoResponse]
    /\ UNCHANGED DvRest

\* The background branch up to child.unref().
DvSpawn ==
    /\ dv.pc = "called"
    /\ inBackground(dv.args)
    /\ dv' = [dv EXCEPT !.pc = "spawned",
                        !.children = spawnChild(@, devCommand(dv.args))]
    /\ UNCHANGED DvRest

\* return formatToolResponse({success: true, command, pid: child.pid, ...}):
\* nothing is awaited between the spawn and the return.
DvReturn ==
    /\ dv.pc = "spawned"
    /\ dv' = [dv EXCEPT !.pc = "responded",
                        !.resp = [success |-> TRUE,
                                  pid |-> <<dv.children[Len(dv.children)].pid>>,
                                  command |-> devCommand(dv.args)]]
    /\ UNCHANGED DvRest

\* The else branch.
DvRefuse ==
    /\ dv.pc = "called"
    /\ ~inBackground(dv.args)
    /\ dv' = [dv EXCEPT !.pc = "responded", !.resp = DvNoResponse]
    /\ UNCHANGED DvRest

\* A spawned process exits, at any time.
DvChildExits ==
    /\ \E n \in 1..Len(dv.children) :
            /\ dv.children[n].state = "running"
            /\ dv' = [dv EXCEPT !.children[n].state = "exited"]
    /\ UNCHANGED DvRest

DvDeliver ==
    /\ dv.pc = "responded"
    /\ dv' = [dv EXCEPT !.pc = "idle", !.args = DvIdle, !.resp = DvNoResponse]
    /\ UNCHANGED DvRest

DevNext ==
    \/ DvCall
    \/ DvSpawn
    \/ DvReturn
    \/ DvRefuse
    \/ DvChildExits
    \/ DvDeliver

SpecDev == InitDev /\ [][DevNext]_vars

====
